---- MODULE Spec2Model ----
(***************************************************************************)
(* Camera & DJ Pro deal finder (src/main.py): the title filter, the        *)
(* description filter, the bundle classifier, the market-data lookup and   *)
(* the scan cycle of track_vinted_items driven by scheduler.               *)
(*                                                                         *)
(* Texts are strings; substring tests, lower-casing, splitting and number  *)
(* parsing are computed on them character by character.  Money is counted  *)
(* in tenths of a pound (120.0 pounds is 1200), which is exact for every   *)
(* figure of PRICING_DATA and for the midpoint of every MARKET_DATA range. *)
(***************************************************************************)
EXTENDS Integers, Sequences, FiniteSets, TLC

(***************************************************************************)
(* Configuration data, src/main.py lines 43-273.                           *)
(***************************************************************************)
MAX_PRODUCTS_PER_CYCLE == 8

CRITICAL_EXCLUSIONS_TITLE ==
    <<
        "broken", "damaged", "faulty", "not working", "for parts", "spares",
        "repair", "cracked", "water damage", "dead", "replica", "fake",
        "poor condition", "smashed", "case", "case only", "protective case", "hard case",
        "soft case", "carrying case", "bag", "bag only", "carry bag", "storage bag",
        "travel bag", "shoulder bag", "mount", "mount only", "mounting", "bracket",
        "holder", "stand", "battery", "battery only", "batteries", "charger",
        "charger only", "cable", "cable only", "usb cable", "lead", "replacement",
        "spare part", "spare parts", "component", "housing", "frame", "chassis",
        "shell", "body only", "lens", "lens only", "lens cap", "filter",
        "filter only", "remote", "remote only", "controller only", "transmitter only", "propeller",
        "propellers", "props", "blades", "blade", "gimbal", "gimbal only",
        "stabilizer only", "screen protector", "protector", "guard", "box", "empty box",
        "just box", "box only", "packaging", "manual", "instructions", "guide only",
        "papers", "accessories only", "accessory", "add on", "addon" >>

CRITICAL_EXCLUSIONS_DESCRIPTION ==
    <<
        "broken", "damaged", "faulty", "not working", "doesnt work",
        "doesn't work", "for parts", "spares", "needs repair", "requires repair",
        "water damage", "water damaged", "dead", "wont turn on", "won't turn on",
        "poor condition", "bad condition", "replica", "fake", "imitation",
        "copy", "spares or repair", "spares or repairs", "parts only", "for spares",
        "smashed", "smashed screen", "screen smashed", "cracked screen", "screen broken",
        "broken screen", "display broken", "display cracked", "no power", "wont power on",
        "does not power on", "power issue", "battery dead", "battery faulty", "battery issue",
        "wont charge", "motor broken", "motor issue", "motor not working", "motor faulty",
        "gimbal broken", "gimbal issue", "gimbal not working", "gimbal faulty", "camera broken",
        "camera issue", "camera not working", "camera faulty", "sensor broken", "sensor issue",
        "sensor not working", "sensor faulty", "fly away", "lost connection", "connection lost",
        "signal lost", "crashed", "crash damage", "impact damage", "dropped",
        "missing parts", "parts missing", "incomplete", "untested", "red light",
        "error light", "flashing red", "warning light", "firmware issue", "software issue",
        "update failed", "bricked" >>

PRODUCT_KEYS ==
    <<
        "gopro hero 12", "gopro hero 11", "gopro hero 10", "gopro hero 9",
        "gopro hero 8", "dji mavic 2 pro", "dji air 2s", "dji mini 3 pro",
        "dji mavic air 2", "dji mini 2", "pioneer ddj-flx10", "pioneer ddj-1000",
        "pioneer ddj-sx3", "pioneer ddj-800", "pioneer ddj-400", "pioneer ddj-sb3",
        "traktor s4" >>

PRODUCT_SPECS ==
    "gopro hero 12" :> [
        keywords |-> <<"hero 12", "hero12", "12 black", "gopro 12", "12 gopro", "hero 12 black", "12 hero", "go pro 12">>,
        exclude |-> <<"hero 11", "hero 10", "hero 9", "hero 8", "hero 7", "11", "10 ", "9 ", "8 ", "7 ", "case", "mount", "battery", "accessory">>,
        must_contain |-> <<"12">> ] @@
    "gopro hero 11" :> [
        keywords |-> <<"hero 11", "hero11", "11 black", "gopro 11", "11 gopro", "hero 11 black", "11 hero", "go pro 11">>,
        exclude |-> <<"hero 12", "hero 10", "hero 9", "hero 8", "hero 7", "12", "10 ", "9 ", "8 ", "7 ", "case", "mount", "battery", "accessory">>,
        must_contain |-> <<"11">> ] @@
    "gopro hero 10" :> [
        keywords |-> <<"hero 10", "hero10", "10 black", "gopro 10", "10 gopro", "hero 10 black", "10 hero", "go pro 10">>,
        exclude |-> <<"hero 12", "hero 11", "hero 9", "hero 8", "hero 7", "12", "11", "9 ", "8 ", "7 ", "case", "mount", "battery", "accessory">>,
        must_contain |-> <<"10">> ] @@
    "gopro hero 9" :> [
        keywords |-> <<"hero 9", "hero9", "9 black", "gopro 9", "9 gopro", "hero 9 black", "9 hero", "go pro 9">>,
        exclude |-> <<"hero 12", "hero 11", "hero 10", "hero 8", "hero 7", "12", "11", "10 ", "8 ", "7 ", "case", "mount", "battery", "accessory">>,
        must_contain |-> <<"9">> ] @@
    "gopro hero 8" :> [
        keywords |-> <<"hero 8", "hero8", "8 black", "gopro 8", "8 gopro", "hero 8 black", "8 hero", "go pro 8">>,
        exclude |-> <<"hero 12", "hero 11", "hero 10", "hero 9", "hero 7", "12", "11", "10 ", "9 ", "7 ", "case", "mount", "battery", "accessory">>,
        must_contain |-> <<"8">> ] @@
    "dji mavic 2 pro" :> [
        keywords |-> <<"mavic 2 pro", "mavic2 pro", "mavic 2pro", "2 pro drone", "dji 2 pro", "mavic pro 2", "mavic2pro">>,
        exclude |-> <<"mini", "air ", "case", "bag", "mavic 3", "mavic pro platinum", "battery", "propeller", "mavic air">>,
        must_contain |-> <<"mavic", "2", "pro">> ] @@
    "dji air 2s" :> [
        keywords |-> <<"air 2s", "air2s", "air 2 s", "dji 2s", "2s drone", "air2 s", "mavic air 2s">>,
        exclude |-> <<"mini", "mavic air 2", "case", "bag", "air 3", "battery", "propeller", "air 2 ">>,
        must_contain |-> <<"air", "2s">> ] @@
    "dji mini 3 pro" :> [
        keywords |-> <<"mini 3 pro", "mini3 pro", "mini 3pro", "mini3pro", "dji mini 3", "3 pro drone", "mini pro 3">>,
        exclude |-> <<"mini 2", "mini 4", "case", "bag", "mini se", "battery", "propeller", "mini 3 ">>,
        must_contain |-> <<"mini", "3", "pro">> ] @@
    "dji mavic air 2" :> [
        keywords |-> <<"mavic air 2", "mavic air2", "air 2 drone", "mavic 2 air", "dji air 2", "mavicair2", "mavic air 2 ">>,
        exclude |-> <<"mini", "case", "bag", "air 2s", "mavic 3", "battery", "propeller", "2s">>,
        must_contain |-> <<"mavic", "air", "2">> ] @@
    "dji mini 2" :> [
        keywords |-> <<"mini 2", "mini2", "dji mini 2", "mini 2 drone", "mini2 drone", "dji 2 mini">>,
        exclude |-> <<"mini 3", "mini 4", "case", "bag", "mini se", "mini pro", "battery", "propeller", "3 pro">>,
        must_contain |-> <<"mini", "2">> ] @@
    "pioneer ddj-flx10" :> [
        keywords |-> <<"ddj-flx10", "ddj flx10", "flx10", "flx 10", "ddj flx 10", "pioneer flx10", "ddj-flx-10", "ddjflx10">>,
        exclude |-> <<"case", "bag", "cover", "flx6", "flx4", "flx 6", "flx 4", "stand">>,
        must_contain |-> <<"flx", "10">> ] @@
    "pioneer ddj-1000" :> [
        keywords |-> <<"ddj-1000", "ddj 1000", "ddj1000", "pioneer 1000", "ddj-1000srt", "ddj 1000 srt", "1000 controller">>,
        exclude |-> <<"ddj-800", "ddj-400", "case", "bag", "ddj-sx", "ddj-sz", "stand", "800", "400">>,
        must_contain |-> <<"ddj", "1000">> ] @@
    "pioneer ddj-sx3" :> [
        keywords |-> <<"ddj-sx3", "ddj sx3", "sx3", "ddj sx 3", "ddjsx3", "pioneer sx3", "ddj-sx-3", "sx 3 controller">>,
        exclude |-> <<"ddj-sb3", "case", "bag", "sx2", "sx ", "stand", "sb3", "sb 3">>,
        must_contain |-> <<"sx", "3">> ] @@
    "pioneer ddj-800" :> [
        keywords |-> <<"ddj-800", "ddj 800", "ddj800", "pioneer 800", "ddj-800 controller", "800 controller", "ddj 800 ">>,
        exclude |-> <<"ddj-1000", "ddj-400", "case", "bag", "ddj-sx", "stand", "1000", "400">>,
        must_contain |-> <<"ddj", "800">> ] @@
    "pioneer ddj-400" :> [
        keywords |-> <<"ddj-400", "ddj 400", "ddj400", "pioneer 400", "ddj-400 controller", "400 controller", "ddj 400 ">>,
        exclude |-> <<"ddj-800", "ddj-1000", "case", "bag", "ddj-200", "stand", "800", "1000", "200">>,
        must_contain |-> <<"ddj", "400">> ] @@
    "pioneer ddj-sb3" :> [
        keywords |-> <<"ddj-sb3", "ddj sb3", "sb3", "ddj sb 3", "ddjsb3", "pioneer sb3", "ddj-sb-3", "sb 3 controller">>,
        exclude |-> <<"ddj-sx3", "case", "bag", "sb2", "sb ", "stand", "sx3", "sx 3">>,
        must_contain |-> <<"sb", "3">> ] @@
    "traktor s4" :> [
        keywords |-> <<"traktor s4", "kontrol s4", "s4 mk3", "s4 mk2", "traktor kontrol s4", "ni s4", "s4 controller", "s4 mk 3", "s4 mk 2">>,
        exclude |-> <<"case", "bag", "s2", "s3", "s8", "stand", "s 2", "s 3", "s 8">>,
        must_contain |-> <<"s4">> ]

PRICING_DATA ==
    "gopro hero 12" :> [max_buy |-> 3000, min_buy |-> 596, target |-> 1490, resell |-> 3600, min_profit |-> 1000] @@
    "gopro hero 11" :> [max_buy |-> 2500, min_buy |-> 464, target |-> 1160, resell |-> 2900, min_profit |-> 800] @@
    "gopro hero 10" :> [max_buy |-> 2000, min_buy |-> 360, target |-> 900, resell |-> 2350, min_profit |-> 700] @@
    "gopro hero 9" :> [max_buy |-> 1500, min_buy |-> 264, target |-> 660, resell |-> 1750, min_profit |-> 600] @@
    "gopro hero 8" :> [max_buy |-> 1200, min_buy |-> 192, target |-> 480, resell |-> 1350, min_profit |-> 500] @@
    "dji mavic 2 pro" :> [max_buy |-> 6000, min_buy |-> 1344, target |-> 3360, resell |-> 8200, min_profit |-> 2500] @@
    "dji air 2s" :> [max_buy |-> 5000, min_buy |-> 1036, target |-> 2590, resell |-> 6200, min_profit |-> 1800] @@
    "dji mini 3 pro" :> [max_buy |-> 4000, min_buy |-> 860, target |-> 2150, resell |-> 5200, min_profit |-> 1500] @@
    "dji mavic air 2" :> [max_buy |-> 3500, min_buy |-> 728, target |-> 1820, resell |-> 4600, min_profit |-> 1400] @@
    "dji mini 2" :> [max_buy |-> 2500, min_buy |-> 508, target |-> 1270, resell |-> 3100, min_profit |-> 1000] @@
    "pioneer ddj-flx10" :> [max_buy |-> 10000, min_buy |-> 2420, target |-> 6050, resell |-> 14000, min_profit |-> 4000] @@
    "pioneer ddj-1000" :> [max_buy |-> 8000, min_buy |-> 1564, target |-> 3910, resell |-> 9500, min_profit |-> 3000] @@
    "pioneer ddj-sx3" :> [max_buy |-> 5500, min_buy |-> 1036, target |-> 2590, resell |-> 6500, min_profit |-> 2200] @@
    "pioneer ddj-800" :> [max_buy |-> 4500, min_buy |-> 860, target |-> 2150, resell |-> 5500, min_profit |-> 2000] @@
    "pioneer ddj-400" :> [max_buy |-> 2200, min_buy |-> 360, target |-> 900, resell |-> 2500, min_profit |-> 1000] @@
    "pioneer ddj-sb3" :> [max_buy |-> 2000, min_buy |-> 334, target |-> 835, resell |-> 2200, min_profit |-> 800] @@
    "traktor s4" :> [max_buy |-> 5000, min_buy |-> 1036, target |-> 2590, resell |-> 6500, min_profit |-> 2200]

MARKET_DATA ==
    "gopro hero 12" :> ("standard" :> [vinted |-> "£320-400", list_price |-> "£340-380"] @@ "creator" :> [vinted |-> "£380-450", list_price |-> "£400-430"]) @@
    "gopro hero 11" :> ("standard" :> [vinted |-> "£250-320", list_price |-> "£270-300"] @@ "creator" :> [vinted |-> "£300-370", list_price |-> "£320-350"]) @@
    "gopro hero 10" :> ("standard" :> [vinted |-> "£200-270", list_price |-> "£220-250"]) @@
    "gopro hero 9" :> ("standard" :> [vinted |-> "£140-200", list_price |-> "£160-185"]) @@
    "gopro hero 8" :> ("standard" :> [vinted |-> "£110-160", list_price |-> "£125-145"]) @@
    "dji mavic 2 pro" :> ("standard" :> [vinted |-> "£650-900", list_price |-> "£700-850"] @@ "fly more" :> [vinted |-> "£800-1100", list_price |-> "£850-1000"]) @@
    "dji air 2s" :> ("standard" :> [vinted |-> "£500-700", list_price |-> "£550-650"] @@ "fly more" :> [vinted |-> "£650-850", list_price |-> "£700-800"]) @@
    "dji mini 3 pro" :> ("standard" :> [vinted |-> "£400-550", list_price |-> "£450-520"] @@ "fly more" :> [vinted |-> "£550-700", list_price |-> "£600-670"]) @@
    "dji mavic air 2" :> ("standard" :> [vinted |-> "£350-500", list_price |-> "£400-470"] @@ "fly more" :> [vinted |-> "£480-630", list_price |-> "£520-600"]) @@
    "dji mini 2" :> ("standard" :> [vinted |-> "£220-330", list_price |-> "£250-310"] @@ "fly more" :> [vinted |-> "£300-420", list_price |-> "£330-390"]) @@
    "pioneer ddj-flx10" :> ("standard" :> [vinted |-> "£1200-1600", list_price |-> "£1300-1500"]) @@
    "pioneer ddj-1000" :> ("standard" :> [vinted |-> "£800-1100", list_price |-> "£900-1050"]) @@
    "pioneer ddj-sx3" :> ("standard" :> [vinted |-> "£550-750", list_price |-> "£600-700"]) @@
    "pioneer ddj-800" :> ("standard" :> [vinted |-> "£450-650", list_price |-> "£500-600"]) @@
    "pioneer ddj-400" :> ("standard" :> [vinted |-> "£200-280", list_price |-> "£220-260"]) @@
    "pioneer ddj-sb3" :> ("standard" :> [vinted |-> "£180-250", list_price |-> "£200-240"]) @@
    "traktor s4" :> ("mk3" :> [vinted |-> "£550-750", list_price |-> "£600-700"] @@ "mk2" :> [vinted |-> "£350-500", list_price |-> "£400-470"])

(***************************************************************************)
(* Python string operations on texts.                                      *)
(***************************************************************************)
\* t in s
Contains(s, t) ==
    \E i \in 1..(Len(s) - Len(t) + 1) : SubSeq(s, i, i + Len(t) - 1) = t

\* the capitals among the characters up to U+00FF (the texts of this model are
\* made of these), and the character str.lower() gives for each
UpperLetters == "ABCDEFGHIJKLMNOPQRSTUVWXYZÀÁÂÃÄÅÆÇÈÉÊËÌÍÎÏÐÑÒÓÔÕÖØÙÚÛÜÝÞ"

LowerLetters == "abcdefghijklmnopqrstuvwxyzàáâãäåæçèéêëìíîïðñòóôõöøùúûüýþ"

LowerChar(c) ==
    IF \E i \in 1..Len(UpperLetters) : SubSeq(UpperLetters, i, i) = c
    THEN LET i == CHOOSE j \in 1..Len(UpperLetters) : SubSeq(UpperLetters, j, j) = c
         IN  SubSeq(LowerLetters, i, i)
    ELSE c

\* s.lower()
RECURSIVE Lower(_)
Lower(s) ==
    IF s = "" THEN "" ELSE LowerChar(SubSeq(s, 1, 1)) \o Lower(SubSeq(s, 2, Len(s)))

\* c.isspace() for a character up to U+00FF: blank, tab, line feed, vertical
\* tab, form feed, carriage return, U+001C to U+001F, U+0085 and the no-break
\* space U+00A0
IsSpace(c) ==
    c \in {" ", "\t", "\n", "\r", "\f", "", "", "", "", "",
           "", " "}

\* s.split(): the words of s from position i on; cur is the word being read
RECURSIVE SplitFrom(_, _, _)
SplitFrom(s, i, cur) ==
    IF i > Len(s)
    THEN IF cur = "" THEN << >> ELSE <<cur>>
    ELSE LET c == SubSeq(s, i, i) IN
         IF IsSpace(c)
         THEN IF cur = "" THEN SplitFrom(s, i + 1, "")
                          ELSE <<cur>> \o SplitFrom(s, i + 1, "")
         ELSE SplitFrom(s, i + 1, cur \o c)

Split(s) == SplitFrom(s, 1, "")

\* s.strip()
RECURSIVE Strip(_)
Strip(s) ==
    IF s = "" THEN ""
    ELSE IF IsSpace(SubSeq(s, 1, 1)) THEN Strip(SubSeq(s, 2, Len(s)))
    ELSE IF IsSpace(SubSeq(s, Len(s), Len(s))) THEN Strip(SubSeq(s, 1, Len(s) - 1))
    ELSE s

\* s.replace(c, '') for a one-character c
RECURSIVE RemoveChar(_, _)
RemoveChar(s, c) ==
    IF s = "" THEN ""
    ELSE LET h == SubSeq(s, 1, 1) IN
         (IF h = c THEN "" ELSE h) \o RemoveChar(SubSeq(s, 2, Len(s)), c)

\* s.split(c) for a one-character c: the fields of s from position i on
RECURSIVE SplitOnFrom(_, _, _, _)
SplitOnFrom(s, c, i, cur) ==
    IF i > Len(s) THEN <<cur>>
    ELSE IF SubSeq(s, i, i) = c THEN <<cur>> \o SplitOnFrom(s, c, i + 1, "")
    ELSE SplitOnFrom(s, c, i + 1, cur \o SubSeq(s, i, i))

SplitOn(s, c) == SplitOnFrom(s, c, 1, "")

Digits == "0123456789"

IsDigit(c) == \E i \in 1..Len(Digits) : SubSeq(Digits, i, i) = c

DigitValue(c) == (CHOOSE i \in 1..Len(Digits) : SubSeq(Digits, i, i) = c) - 1

\* whether float(s) succeeds, for the texts of digits the configuration holds
IsNumber(s) == s # "" /\ \A i \in 1..Len(s) : IsDigit(SubSeq(s, i, i))

\* float(s) of a text of digits
RECURSIVE ParseNumber(_)
ParseNumber(s) ==
    IF s = "" THEN 0
    ELSE 10 * ParseNumber(SubSeq(s, 1, Len(s) - 1)) + DigitValue(SubSeq(s, Len(s), Len(s)))

\* index of the first term of the list, from position i on, that occurs in text; 0 if none
RECURSIVE FirstIndexIn(_, _, _)
FirstIndexIn(terms, text, i) ==
    IF i > Len(terms) THEN 0
    ELSE IF Contains(text, terms[i]) THEN i
    ELSE FirstIndexIn(terms, text, i + 1)

LowerAll(terms) == [i \in DOMAIN terms |-> Lower(terms[i])]

(***************************************************************************)
(* strict_product_match, src/main.py lines 330-399.  The result is the     *)
(* pair <<passes, reason>>.                                                *)
(***************************************************************************)
parts_indicators ==
    << "only", "spare", "replacement", "accessory", "accessories",
       "part", "parts", "component", "addon", "add-on" >>

parts_excl ==
    << "case", "bag", "mount", "battery", "charger", "cable", "propeller", "lens", "remote" >>

\* variant of TitleExclusionIndex: the list is scanned from its end
RECURSIVE LastIndexIn(_, _, _)
LastIndexIn(terms, text, i) ==
    IF i < 1 THEN 0
    ELSE IF Contains(text, terms[i]) THEN i
    ELSE LastIndexIn(terms, text, i - 1)

TitleExclusionIndex_Last(title_lower) ==
    LastIndexIn(CRITICAL_EXCLUSIONS_TITLE, title_lower, Len(CRITICAL_EXCLUSIONS_TITLE))

\* variant of TitleExclusionIndex: a term is compared with the whole title
RECURSIVE FirstIndexEqual(_, _, _)
FirstIndexEqual(terms, text, i) ==
    IF i > Len(terms) THEN 0
    ELSE IF text = terms[i] THEN i
    ELSE FirstIndexEqual(terms, text, i + 1)

TitleExclusionIndex_WholeTitle(title_lower) ==
    FirstIndexEqual(CRITICAL_EXCLUSIONS_TITLE, title_lower, 1)

\* variant of TitleExclusionIndex: only the terms about damage and fakes, the
\* first 14 of the list, are looked for
TitleExclusionIndex_DamageOnly(title_lower) ==
    FirstIndexIn(SubSeq(CRITICAL_EXCLUSIONS_TITLE, 1, 14), title_lower, 1)

\* lines 342-345: index of the first title exclusion term in the title, 0 if none
TitleExclusionIndex(title_lower) == FirstIndexIn(CRITICAL_EXCLUSIONS_TITLE, title_lower, 1)

\* lines 352-355: index of the first parts indicator that rejects the title, 0 if none
PartsIndicatorIndex(title_lower) ==
    IF \E j \in DOMAIN parts_excl : Contains(title_lower, parts_excl[j])
    THEN FirstIndexIn(parts_indicators, title_lower, 1)
    ELSE 0

\* line 367: one keyword against the title
KeywordMatches(keyword, title_lower) ==
    \/ Contains(title_lower, Lower(keyword))
    \/ LET words == Split(Lower(keyword))
       IN  \A w \in DOMAIN words : Contains(title_lower, words[w])

\* lines 363-370: index of the first keyword that matches, 0 if none
RECURSIVE KeywordIndex(_, _, _)
KeywordIndex(keywords, title_lower, i) ==
    IF i > Len(keywords) THEN 0
    ELSE IF KeywordMatches(keywords[i], title_lower) THEN i
    ELSE KeywordIndex(keywords, title_lower, i + 1)

\* lines 379-382: index of the first product exclude term in the title, 0 if none
ExcludeIndex(spec, title_lower) == FirstIndexIn(LowerAll(spec.exclude), title_lower, 1)

\* variant of MustContainOk: every term of must_contain is required
MustContainOk_All(spec, title_lower) ==
    IF "must_contain" \in DOMAIN spec /\ Len(spec.must_contain) > 0
    THEN \A j \in DOMAIN spec.must_contain :
             Contains(title_lower, Lower(spec.must_contain[j]))
    ELSE TRUE

\* lines 385-396: the outer loop runs its first iteration only (the break of
\* line 396); that iteration looks for any term of must_contain in the title
MustContainOk(spec, title_lower) ==
    IF "must_contain" \in DOMAIN spec /\ Len(spec.must_contain) > 0
    THEN \E j \in DOMAIN spec.must_contain :
             Contains(title_lower, Lower(spec.must_contain[j]))
    ELSE TRUE

strict_product_match(title, product_key) ==
    LET title_lower == Lower(title) IN
    IF product_key \notin DOMAIN PRODUCT_SPECS
    THEN <<FALSE, "Product not in specs">>
    ELSE
    LET spec == PRODUCT_SPECS[product_key]
        t    == TitleExclusionIndex(title_lower)
    IN
    IF t # 0
    THEN <<FALSE, "Excluded term: '" \o CRITICAL_EXCLUSIONS_TITLE[t] \o "'">>
    ELSE
    LET p == PartsIndicatorIndex(title_lower) IN
    IF p # 0
    THEN <<FALSE, "Parts/accessories: '" \o parts_indicators[p] \o "'">>
    ELSE IF Len(title) < 10
    THEN <<FALSE, "Title too short">>
    ELSE IF KeywordIndex(spec.keywords, title_lower, 1) = 0
    THEN <<FALSE, "No keyword match">>
    ELSE
    LET e == ExcludeIndex(spec, title_lower) IN
    IF e # 0
    THEN <<FALSE, "Excluded: '" \o spec.exclude[e] \o "'">>
    ELSE IF ~MustContainOk(spec, title_lower)
    THEN <<FALSE, "Missing required term">>
    ELSE <<TRUE, "Passed all filters">>

(***************************************************************************)
(* check_description_quality, src/main.py lines 401-416.  The exclusion    *)
(* list is a parameter of the scan; the program passes its own list.       *)
(***************************************************************************)
DESCRIPTION_PLACEHOLDERS ==
    << "No description found on page", "Listing no longer available",
       "Could not scrape (bot detection)" >>

\* variant of NoDescription: only the empty text is let through
NoDescription_EmptyOnly(description) == description = ""

\* line 403: nothing to check
NoDescription(description) ==
    \/ description = ""
    \/ \E i \in DOMAIN DESCRIPTION_PLACEHOLDERS : description = DESCRIPTION_PLACEHOLDERS[i]

\* variant of DescriptionQuality: the scan reads description, not desc_lower
DescriptionQuality_CaseSensitive(description, exclusions) ==
    IF NoDescription(description)
    THEN <<TRUE, "No description to check">>
    ELSE
    LET d == FirstIndexIn(exclusions, description, 1) IN
    IF d # 0
    THEN <<FALSE, "Bad condition: '" \o exclusions[d] \o "'">>
    ELSE <<TRUE, "Description OK">>

DescriptionQuality(description, exclusions) ==
    IF NoDescription(description)
    THEN <<TRUE, "No description to check">>
    ELSE
    LET d == FirstIndexIn(exclusions, Lower(description), 1) IN
    IF d # 0
    THEN <<FALSE, "Bad condition: '" \o exclusions[d] \o "'">>
    ELSE <<TRUE, "Description OK">>

check_description_quality(description) ==
    DescriptionQuality(description, CRITICAL_EXCLUSIONS_DESCRIPTION)

(***************************************************************************)
(* Bundle classifier and market-data lookup, src/main.py lines 418-484.    *)
(***************************************************************************)
parse_bundle_type_from_title(title, product_key) ==
    LET title_lower == Lower(title) IN
    IF Contains(product_key, "gopro")
    THEN IF Contains(title_lower, "creator") \/ Contains(title_lower, "creator edition")
         THEN "creator" ELSE "standard"
    ELSE IF Contains(product_key, "dji")
    THEN IF \/ Contains(title_lower, "fly more")
            \/ Contains(title_lower, "flymore")
            \/ Contains(title_lower, "combo")
         THEN "fly more" ELSE "standard"
    ELSE IF Contains(product_key, "traktor")
    THEN IF Contains(title_lower, "mk3") \/ Contains(title_lower, "mk 3") THEN "mk3"
         ELSE IF Contains(title_lower, "mk2") \/ Contains(title_lower, "mk 2") THEN "mk2"
         ELSE "standard"
    ELSE "standard"

parse_bundle_type_from_description(description, product_key) ==
    IF description = "" THEN "standard"
    ELSE
    LET desc_lower == Lower(description) IN
    IF /\ Contains(product_key, "gopro")
       /\ (Contains(desc_lower, "creator") \/ Contains(desc_lower, "creator edition"))
    THEN "creator"
    ELSE IF /\ Contains(product_key, "dji")
            /\ \/ Contains(desc_lower, "fly more")
               \/ Contains(desc_lower, "flymore")
               \/ Contains(desc_lower, "combo")
    THEN "fly more"
    ELSE IF /\ Contains(product_key, "traktor")
            /\ (Contains(desc_lower, "mk3") \/ Contains(desc_lower, "mk 3"))
    THEN "mk3"
    ELSE IF /\ Contains(product_key, "traktor")
            /\ (Contains(desc_lower, "mk2") \/ Contains(desc_lower, "mk 2"))
    THEN "mk2"
    ELSE "standard"

\* variant of BundleOf: the title's bundle unless it is 'standard'
BundleOf_TitleFirst(model_key, title, description) ==
    LET bundle_title == parse_bundle_type_from_title(title, model_key)
        bundle_desc  == parse_bundle_type_from_description(description, model_key)
    IN  IF bundle_title # "standard" THEN bundle_title ELSE bundle_desc

\* line 476: the description's bundle unless it is 'standard'
BundleOf(model_key, title, description) ==
    LET bundle_title == parse_bundle_type_from_title(title, model_key)
        bundle_desc  == parse_bundle_type_from_description(description, model_key)
    IN  IF bundle_desc # "standard" THEN bundle_desc ELSE bundle_title

NotAvailable == [vinted |-> "Not available", list_price |-> "Not available"]

\* variant of get_market_data: the bundle is read from the title alone
get_market_data_TitleOnly(model_key, title, description) ==
    LET bundle == parse_bundle_type_from_title(title, model_key) IN
    IF model_key \in DOMAIN MARKET_DATA
    THEN IF bundle \in DOMAIN MARKET_DATA[model_key]
         THEN MARKET_DATA[model_key][bundle]
         ELSE IF "standard" \in DOMAIN MARKET_DATA[model_key]
              THEN MARKET_DATA[model_key]["standard"]
              ELSE NotAvailable
    ELSE NotAvailable

get_market_data(model_key, title, description) ==
    LET bundle == BundleOf(model_key, title, description) IN
    IF model_key \in DOMAIN MARKET_DATA
    THEN IF bundle \in DOMAIN MARKET_DATA[model_key]
         THEN MARKET_DATA[model_key][bundle]
         ELSE IF "standard" \in DOMAIN MARKET_DATA[model_key]
              THEN MARKET_DATA[model_key]["standard"]
              ELSE NotAvailable
    ELSE NotAvailable

\* lines 1046-1057: the final profit, in tenths of a pound; any failure of the
\* parse (the bare except) gives 0
FinalProfit(market_data, price) ==
    LET vinted_str == market_data.vinted IN
    IF Contains(vinted_str, "-") /\ vinted_str # "Not available"
    THEN LET vinted_parts == SplitOn(RemoveChar(vinted_str, "£"), "-") IN
         IF Len(vinted_parts) >= 2 /\ IsNumber(vinted_parts[1]) /\ IsNumber(vinted_parts[2])
         THEN 5 * (ParseNumber(vinted_parts[1]) + ParseNumber(vinted_parts[2])) - price
         ELSE 0
    ELSE 0

\* s.replace(old, new) for a non-empty old
RECURSIVE Replace(_, _, _)
Replace(s, old, new) ==
    IF Len(s) < Len(old) THEN s
    ELSE IF SubSeq(s, 1, Len(old)) = old
    THEN new \o Replace(SubSeq(s, Len(old) + 1, Len(s)), old, new)
    ELSE SubSeq(s, 1, 1) \o Replace(SubSeq(s, 2, Len(s)), old, new)

\* send_discord_notification, lines 626-637: the profit shown in the
\* notification, in tenths of a pound; any failure of the parse (the bare
\* except) gives 0
NotificationProfit(market_data, price) ==
    LET vinted_str == market_data.vinted IN
    IF Contains(vinted_str, "-") /\ vinted_str # "Not available"
    THEN LET vinted_parts == SplitOn(RemoveChar(vinted_str, "£"), "-") IN
         IF Len(vinted_parts) >= 2 /\ IsNumber(vinted_parts[1]) /\ IsNumber(vinted_parts[2])
         THEN 5 * (ParseNumber(vinted_parts[1]) + ParseNumber(vinted_parts[2])) - price
         ELSE 0
    ELSE LET text == Replace(RemoveChar(RemoveChar(vinted_str, "£"), ","),
                             "Not available", "0") IN
         IF IsNumber(text) THEN 10 * ParseNumber(text) - price ELSE 0

(***************************************************************************)
(* The scan cycle: scheduler, track_vinted_items, scrape_vinted_description*)
(* and send_discord_notification, src/main.py lines 486-718 and 852-1189.  *)
(***************************************************************************)
VARIABLES
    store,          \* the database file: what has been committed
    conn,           \* the open connection's view: store plus the cycle's own writes
    pc,             \* where the single thread of control stands
    cycle_number,   \* scheduler's cycle_number
    queries,        \* the batch of query ids selected for the cycle
    idx,            \* position of the current query in the batch (1-based)
    n_items,        \* len(items) of the current query
    item_idx,       \* position of the current listing in items (1-based)
    item,           \* the current listing object
    loc,            \* locals of the per-listing body
    trace,          \* what has been done to the current listing, in order
    sent,           \* per listing id, the calls of send_discord_notification so far
    failed,         \* listing ids whose notification call returned False
    rejected,       \* history: whether the run keeps one, and the rejection it follows
                    \* as [id, query, stage, cycle]
    rounds,         \* history: per cycle of the run so far, the queries it got through
                    \* and whether it ran to the end of its batch
    now,            \* the clock behind datetime.utcnow()
    total_items,    \* cycle_stats['total_items']
    product_passed, \* product_passed of the current query
    search,         \* the current query's search_with_pagination call: its frame while
                    \* it stands at an await, then what it returned
    db_errors,      \* how many database statements of the try blocks have raised so far
    fn_in,          \* inputs of the function under check (function specifications)
    fn_out          \* its result

cycle_vars == <<store, conn, pc, cycle_number, queries, idx, n_items, item_idx,
                item, loc, trace, sent, failed, rejected, rounds, now, total_items, product_passed, search,
                db_errors>>

vars == <<store, conn, pc, cycle_number, queries, idx, n_items, item_idx,
          item, loc, trace, sent, failed, rejected, rounds, now, total_items, product_passed, search,
          db_errors, fn_in, fn_out>>

(***************************************************************************)
(* Bounds of the model.                                                    *)
(***************************************************************************)
MaxCycles == 2

MaxItems == 2

\* how many database statements inside the try block of the cycles may raise
\* in a run
MaxDbErrors == 1

\* scrape_vinted_description's max_retries parameter (default, line 486)
max_retries == 3

(***************************************************************************)
(* The marketplace the searches draw from.  A listing carries what the     *)
(* search returns (id, title, price), the description its page shows, and  *)
(* the attribute, if any, whose read raises on this listing object.  A     *)
(* title "" stands for a missing title.                                    *)
(***************************************************************************)
Listings ==
    { [id |-> 101, title |-> "GoPro Hero 11 Black DJI Mini 2 bundle", price |-> 1200,
       page |-> "Creator Edition with Fly More combo, works perfectly", raises |-> "none"],
      [id |-> 102, title |-> "GoPro Hero 11 case only", price |-> 300,
       page |-> "Just the case, good condition overall", raises |-> "none"],
      [id |-> 103, title |-> "DJI Mini 2 drone mint condition", price |-> 1500,
       page |-> "Crashed into a tree, Won't turn on", raises |-> "none"],
      [id |-> 104, title |-> "DJI Mini 2 quadcopter", price |-> 1800,
       page |-> "Great little drone, hardly flown", raises |-> "currency"],
      [id |-> 105, title |-> "GoPro Hero 11 Black", price |-> 900,
       page |-> "Great camera, hardly used", raises |-> "title"],
      [id |-> 106, title |-> "GoPro Hero 11 Black", price |-> 950,
       page |-> "Great camera, hardly used", raises |-> "id"] }

ListingIds == {l.id : l \in Listings}

NoItem == [id |-> 0, title |-> "", price |-> 0, page |-> "", raises |-> "none"]

\* the products whose searches return listings in this model
ActiveKeys == {"gopro hero 11", "dji mini 2"}

\* what one page request can come back with
ScrapeResponses(l) ==
    { [kind |-> "status", status |-> 200, body |-> l.page],
      [kind |-> "status", status |-> 200, body |-> ""],
      [kind |-> "status", status |-> 404, body |-> ""],
      [kind |-> "status", status |-> 403, body |-> ""],
      [kind |-> "status", status |-> 406, body |-> ""],
      [kind |-> "status", status |-> 500, body |-> ""],
      [kind |-> "timeout", status |-> 0, body |-> ""] }
    \cup { [kind |-> "error", status |-> 0, body |-> m] :
             m \in {"[Errno 104] Connection reset by peer", "[Errno 32] Broken pipe"} }

\* what the page requests of the cycles come back with, one of each kind: the
\* listing's page, a listing that is gone, a timeout, an exception
CycleResponses(l) ==
    { [kind |-> "status", status |-> 200, body |-> l.page],
      [kind |-> "status", status |-> 404, body |-> ""],
      [kind |-> "timeout", status |-> 0, body |-> ""],
      [kind |-> "error", status |-> 0, body |-> "[Errno 32] Broken pipe"] }

(***************************************************************************)
(* The database, src/main.py lines 275-328 and 801-850.                    *)
(***************************************************************************)
QueryIds == DOMAIN PRODUCT_KEYS

\* create_filtered_searches on an empty database: one row per PRICING_DATA key,
\* with ids in insertion order.  The state keeps the columns a row can differ
\* in over time; 0 is the NULL last_checked.
InitialSearchQueries ==
    [q \in QueryIds |-> [enabled |-> TRUE, last_checked |-> 0]]

\* the columns of row q written once by the INSERT of lines 836-842
search_text(q) == PRODUCT_KEYS[q]

target_price(q) == PRICING_DATA[PRODUCT_KEYS[q]].target

InitialStore == [search_queries |-> InitialSearchQueries, tracked_items |-> {}]

\* variant of RowsWithId: the id lookup never matches (ids compared across types)
RowsWithId_NoMatch(tracked_items, id) == {}

\* tracked_items rows with the given id: SELECT ... WHERE id = ?, and the
\* lookup behind the PRIMARY KEY of line 302
RowsWithId(tracked_items, id) == {r \in tracked_items : r.id = id}

\* variant of IsTracked: the dedup check also knows the rejected listings
IsTracked_OrRejected(tracked_items, id) ==
    RowsWithId(tracked_items, id) # {} \/ \E r \in rejected.log : r.id = id

\* variant of IsTracked: the dedup check is left out
IsTracked_Never(tracked_items, id) == FALSE

\* lines 970-971
IsTracked(tracked_items, id) == RowsWithId(tracked_items, id) # {}

\* lines 1094-1100: INSERT INTO tracked_items; the PRIMARY KEY refuses a second
\* row with the id (sqlite3.IntegrityError)
InsertRaises(tracked_items, row) == RowsWithId(tracked_items, row.id) # {}

\* lines 1094-1100: the table with the row added
InsertTracked(tracked_items, row) == tracked_items \cup {row}

\* lines 866-872: enabled queries, NULL last_checked first, oldest first, at most
\* MAX_PRODUCTS_PER_CYCLE; rows of equal last_checked come in rowid order
Before_NewestFirst(sq, a, b) ==
    \/ sq[a].last_checked > sq[b].last_checked
    \/ sq[a].last_checked = sq[b].last_checked /\ a < b

Before(sq, a, b) ==
    \/ sq[a].last_checked < sq[b].last_checked
    \/ sq[a].last_checked = sq[b].last_checked /\ a < b

RECURSIVE SortedFrom(_, _)
SortedFrom(sq, ids) ==
    IF ids = {} THEN << >>
    ELSE LET first == CHOOSE a \in ids : \A b \in ids \ {a} : Before(sq, a, b)
         IN  <<first>> \o SortedFrom(sq, ids \ {first})

\* variant of SelectQueries: the WHERE clause is left out
SelectQueries_IgnoreEnabled(sq) ==
    LET sorted == SortedFrom(sq, DOMAIN sq)
    IN  SubSeq(sorted, 1, IF Len(sorted) < MAX_PRODUCTS_PER_CYCLE
                          THEN Len(sorted) ELSE MAX_PRODUCTS_PER_CYCLE)

SelectQueries(sq) ==
    LET sorted == SortedFrom(sq, {q \in DOMAIN sq : sq[q].enabled})
    IN  SubSeq(sorted, 1, IF Len(sorted) < MAX_PRODUCTS_PER_CYCLE
                          THEN Len(sorted) ELSE MAX_PRODUCTS_PER_CYCLE)

(***************************************************************************)
(* scrape_vinted_description, src/main.py lines 486-611: what one request  *)
(* of the retry loop leads to.  attempt counts from 0 as in the code.  A   *)
(* 200 body is the text the first extraction method that finds one yields. *)
(***************************************************************************)
Retry == [done |-> FALSE, description |-> "", success |-> FALSE]

Return(description, success) ==
    [done |-> TRUE, description |-> description, success |-> success]

\* variant of lines 572, 581, 589 and 597: the last attempt is retried too
ScrapeOutcome_RetryOnLast(resp, attempt) ==
    IF resp.kind = "status" /\ resp.status = 200
    THEN IF Len(Strip(resp.body)) > 10
         THEN Return(Strip(resp.body), TRUE)
         ELSE Return("No description found on page", FALSE)
    ELSE IF resp.kind = "status" /\ resp.status = 404
    THEN Return("Listing no longer available", FALSE)
    ELSE IF attempt < max_retries
    THEN Retry
    ELSE IF resp.kind = "status" /\ resp.status \in {403, 406}
    THEN Return("Could not scrape (bot detection)", FALSE)
    ELSE IF resp.kind = "status"
    THEN Return("HTTP error " \o ToString(resp.status), FALSE)
    ELSE IF resp.kind = "timeout"
    THEN Return("Scrape timeout", FALSE)
    ELSE Return("Scrape error: "
                \o SubSeq(resp.body, 1, IF Len(resp.body) < 50 THEN Len(resp.body) ELSE 50),
                FALSE)

ScrapeOutcome(resp, attempt) ==
    IF resp.kind = "status" /\ resp.status = 200
    THEN IF Len(Strip(resp.body)) > 10
         THEN Return(Strip(resp.body), TRUE)
         ELSE Return("No description found on page", FALSE)
    ELSE IF resp.kind = "status" /\ resp.status = 404
    THEN Return("Listing no longer available", FALSE)
    ELSE IF attempt < max_retries - 1
    THEN Retry
    ELSE IF resp.kind = "status" /\ resp.status \in {403, 406}
    THEN Return("Could not scrape (bot detection)", FALSE)
    ELSE IF resp.kind = "status"
    THEN Return("HTTP error " \o ToString(resp.status), FALSE)
    ELSE IF resp.kind = "timeout"
    THEN Return("Scrape timeout", FALSE)
    ELSE Return("Scrape error: "
                \o SubSeq(resp.body, 1, IF Len(resp.body) < 50 THEN Len(resp.body) ELSE 50),
                FALSE)

(***************************************************************************)
(* search_with_pagination, src/main.py lines 720-799.  The scraper is the  *)
(* sequence of what its search calls come back with, taken in turn (and    *)
(* again from the start when it runs out): a page of n listings, or the    *)
(* message of the exception raised.  The listings a call returned are kept *)
(* as one block [call, n] of all_items.                                    *)
(***************************************************************************)
MAX_PAGES_PER_SEARCH == 20

MAX_RETRIES == 2

ITEMS_PER_PAGE == 40

ScraperResponse(responses, call) == responses[((call - 1) % Len(responses)) + 1]

\* line 732: the condition of the retry loop of one page
RetryAllowed(retry_count, page_success) ==
    retry_count < MAX_RETRIES /\ ~page_success

\* line 748: the test that ends the search on a page
EndReached_ShortPage(n) == n < ITEMS_PER_PAGE

EndReached(n) == n = 0

\* lines 764-796: what the handler does after retry_count and the error
\* counters have been updated: "return" all_items, "break" out of the page's
\* retry loop, or go round the loop again
ErrorAction_406Breaks(error_msg, retry_count, consecutive_errors, session_errors) ==
    IF Contains(error_msg, "406") \/ Contains(error_msg, "Not Acceptable")
    THEN "break"
    ELSE IF Contains(error_msg, "403") \/ Contains(error_msg, "Forbidden")
    THEN IF consecutive_errors >= 2 THEN "return"
         ELSE IF retry_count >= MAX_RETRIES THEN "break" ELSE "retry"
    ELSE IF Contains(error_msg, "401") \/ Contains(error_msg, "Unauthorized")
    THEN IF retry_count >= MAX_RETRIES THEN "return" ELSE "retry"
    ELSE IF retry_count >= MAX_RETRIES THEN "break" ELSE "retry"

\* variant of lines 785-790: an expired session that could not be renewed
\* only abandons the page
ErrorAction_401Breaks(error_msg, retry_count, consecutive_errors, session_errors) ==
    IF Contains(error_msg, "406") \/ Contains(error_msg, "Not Acceptable")
    THEN IF session_errors >= 1 THEN "return" ELSE "break"
    ELSE IF Contains(error_msg, "403") \/ Contains(error_msg, "Forbidden")
    THEN IF consecutive_errors >= 2 THEN "return"
         ELSE IF retry_count >= MAX_RETRIES THEN "break" ELSE "retry"
    ELSE IF retry_count >= MAX_RETRIES THEN "break" ELSE "retry"

ErrorAction(error_msg, retry_count, consecutive_errors, session_errors) ==
    IF Contains(error_msg, "406") \/ Contains(error_msg, "Not Acceptable")
    THEN IF session_errors >= 1 THEN "return" ELSE "break"
    ELSE IF Contains(error_msg, "403") \/ Contains(error_msg, "Forbidden")
    THEN IF consecutive_errors >= 2 THEN "return"
         ELSE IF retry_count >= MAX_RETRIES THEN "break" ELSE "retry"
    ELSE IF Contains(error_msg, "401") \/ Contains(error_msg, "Unauthorized")
    THEN IF retry_count >= MAX_RETRIES THEN "return" ELSE "retry"
    ELSE IF retry_count >= MAX_RETRIES THEN "break" ELSE "retry"

\* lines 724-730: the locals at the start of a page
SearchStart ==
    [page |-> 1, retry_count |-> 0, page_success |-> FALSE, consecutive_errors |-> 0,
     session_errors |-> 0, all_items |-> << >>, calls |-> << >>]

\* variant of lines 728-730: the rate-limit counter starts again on every page
NextPage_ResetErrors(s) ==
    [s EXCEPT !.page = @ + 1, !.retry_count = 0, !.page_success = FALSE,
              !.consecutive_errors = 0]

NextPage(s) == [s EXCEPT !.page = @ + 1, !.retry_count = 0, !.page_success = FALSE]

\* lines 759-765 and 774-775: retry_count and the counter of the error's kind
AfterError(s, error_msg) ==
    [s EXCEPT
       !.retry_count = @ + 1,
       !.session_errors =
           IF Contains(error_msg, "406") \/ Contains(error_msg, "Not Acceptable")
           THEN @ + 1 ELSE @,
       !.consecutive_errors =
           IF ~(Contains(error_msg, "406") \/ Contains(error_msg, "Not Acceptable"))
              /\ (Contains(error_msg, "403") \/ Contains(error_msg, "Forbidden"))
           THEN @ + 1 ELSE @]

\* variant of line 752: the listings of the page are added twice
Extend_Twice(all_items, call, n) ==
    Append(Append(all_items, [call |-> call, n |-> n]), [call |-> call, n |-> n])

\* line 752: all_items.extend(items), the listings of one call kept as a block
Extend(all_items, call, n) == Append(all_items, [call |-> call, n |-> n])

\* what the function returns, with the calls it made: the page and the
\* response of each, in order
SearchResult(s) == [all_items |-> s.all_items, calls |-> s.calls]

\* lines 764-796: whether the handler sleeps (an await) before it goes on: it
\* does in every branch but the break of lines 794-795
SleepsAfterError(error_msg, a) ==
    ~(/\ a = "break"
      /\ ~(Contains(error_msg, "406") \/ Contains(error_msg, "Not Acceptable"))
      /\ ~(Contains(error_msg, "403") \/ Contains(error_msg, "Forbidden"))
      /\ ~(Contains(error_msg, "401") \/ Contains(error_msg, "Unauthorized")))

\* The call as it stands at one of its awaits, or returned: its locals s, the
\* scraper's responses, max_pages, and where it is: at "call" it waits for
\* scraper.search (line 742), at "sleep" in asyncio.sleep (lines 757-796),
\* at "done" it has returned.  then is what follows the sleep: "return",
\* "break" (out of the page's retry loop) or "loop" (the while test).
Frame(s, responses, max_pages, at, then) ==
    [s |-> s, responses |-> responses, max_pages |-> max_pages, at |-> at, then |-> then]

\* lines 728 and 732: from the end of a pass of the retry loop to the next
\* call of scraper.search, or to the return of line 799
Loop(f, then) ==
    LET n == IF then = "break" \/ ~RetryAllowed(f.s.retry_count, f.s.page_success)
             THEN NextPage(f.s) ELSE f.s
    IN  Frame(n, f.responses, f.max_pages,
              IF n.page > f.max_pages THEN "done" ELSE "call", "loop")

\* lines 742-796: scraper.search comes back, and the call runs to its next
\* await or to its return
SearchCall(f) ==
    LET s    == f.s
        call == Len(s.calls) + 1
        r    == ScraperResponse(f.responses, call)
        s1   == [s EXCEPT !.calls = Append(@, [page |-> s.page, response |-> r])]
    IN  IF r.kind = "items"
        THEN IF EndReached(r.n)
             THEN Frame(s1, f.responses, f.max_pages, "done", "return")
             ELSE LET s2 == [s1 EXCEPT !.consecutive_errors = 0,
                                       !.session_errors = 0,
                                       !.page_success = TRUE,
                                       !.all_items = Extend(@, call, r.n)]
                      g  == Frame(s2, f.responses, f.max_pages, "sleep", "loop")
                  IN  IF s.page < f.max_pages THEN g ELSE Loop(g, "loop")
        ELSE LET s2 == AfterError(s1, r.error_msg)
                 a  == ErrorAction(r.error_msg, s2.retry_count, s2.consecutive_errors,
                                   s2.session_errors)
                 then == IF a = "retry" THEN "loop" ELSE a
                 g  == Frame(s2, f.responses, f.max_pages, "sleep", then)
             IN  IF SleepsAfterError(r.error_msg, a) THEN g ELSE Loop(g, then)

\* the sleep ends: the return that follows it, or the loop goes on
SearchWake(f) ==
    IF f.then = "return"
    THEN Frame(f.s, f.responses, f.max_pages, "done", "return")
    ELSE Loop(f, f.then)

\* variant of search_with_pagination: the page range runs one page too far
search_with_pagination_OnePageMore(responses, max_pages) ==
    IF max_pages + 1 >= 1
    THEN SearchCall(Frame(SearchStart, responses, max_pages + 1, "call", "loop"))
    ELSE Frame(SearchStart, responses, max_pages + 1, "done", "return")

\* lines 720-742 and 799: the call runs from its start to its first await, the
\* first scraper.search, which comes back; when range(1, max_pages + 1) is
\* empty it makes no call and returns the empty list at once
search_with_pagination(responses, max_pages) ==
    IF max_pages >= 1
    THEN SearchCall(Frame(SearchStart, responses, max_pages, "call", "loop"))
    ELSE Frame(SearchStart, responses, max_pages, "done", "return")

\* lines 999-1011: the profit estimate made before the scrape
PreviewProfit(market_data, price) ==
    LET vinted_str == market_data.vinted IN
    IF Contains(vinted_str, "-") /\ vinted_str # "Not available"
    THEN LET vinted_parts == SplitOn(RemoveChar(vinted_str, "£"), "-") IN
         IF Len(vinted_parts) >= 2 /\ IsNumber(vinted_parts[1]) /\ IsNumber(vinted_parts[2])
         THEN 5 * (ParseNumber(vinted_parts[1]) + ParseNumber(vinted_parts[2])) - price
         ELSE 0
    ELSE 0 - price

(***************************************************************************)
(* The steps of the cycle.                                                 *)
(***************************************************************************)
NoLoc == [title |-> "", price |-> 0, filter_reason |-> "", attempt |-> 0,
          description |-> "", scrape_success |-> FALSE, profit |-> 0]

NoFn == [fn |-> "none"]

\* no search has returned yet
\* a run that keeps no history of rejections, and the start of one that does
NoHistory == [kept |-> FALSE, log |-> {}]

EmptyHistory == [kept |-> TRUE, log |-> {}]

NoSearch == [all_items |-> << >>, calls |-> << >>]

Init ==
    /\ store = InitialStore
    /\ conn = InitialStore
    /\ pc = "idle"
    /\ cycle_number = 0
    /\ queries = << >>
    /\ idx = 0
    /\ n_items = 0
    /\ item_idx = 0
    /\ item = NoItem
    /\ loc = NoLoc
    /\ trace = << >>
    /\ sent = [i \in ListingIds |-> 0]
    /\ failed = {}
    /\ rejected = NoHistory
    /\ rounds = << >>
    /\ now = 0
    /\ total_items = 0
    /\ product_passed = 0
    /\ search = NoSearch
    /\ db_errors = 0
    /\ fn_in = NoFn
    /\ fn_out = NoFn

\* the query being processed (line 897)
query_id == queries[idx]

\* variant of AfterCycle: an exception of the cycle leaves the scheduler's loop
AfterCycle_Reraise(raised) == IF raised THEN "stopped" ELSE "sleep"

\* scheduler lines 1181-1189: where the scheduler goes when track_vinted_items
\* has returned, or has raised (the exception is logged)
AfterCycle(raised) == "sleep"

\* whether a database statement of the cycle's try block (lines 895-1150)
\* may raise: any may, as long as fewer than MaxDbErrors of the run have
MayRaise == IF db_errors < MaxDbErrors THEN {FALSE, TRUE} ELSE {FALSE}

\* scheduler lines 1177-1181, track_vinted_items lines 859-893.  Opening the
\* database and the two SELECTs come before the try of line 895: when one of
\* them raises, the exception reaches the scheduler.
StartCycle ==
    /\ pc = "idle"
    /\ cycle_number < MaxCycles
    /\ now < MaxCycles * MAX_PRODUCTS_PER_CYCLE
    /\ cycle_number' = cycle_number + 1
    /\ \/ /\ pc' = AfterCycle(TRUE)
          /\ UNCHANGED <<conn, queries, idx>>
       \/ /\ conn' = store
          /\ queries' = SelectQueries(store.search_queries)
          /\ IF queries' = << >>
             THEN pc' = AfterCycle(FALSE) /\ idx' = 0
             ELSE pc' = "search" /\ idx' = 1
    /\ n_items' = 0 /\ item_idx' = 0 /\ item' = NoItem /\ loc' = NoLoc /\ trace' = << >>
    /\ total_items' = 0 /\ product_passed' = 0 /\ search' = NoSearch
    /\ UNCHANGED <<store, sent, failed, rejected, rounds, now, fn_in, fn_out, db_errors>>

\* what the marketplace's search serves for a product, as the scraper's
\* responses: no listing at all, the search blocked, one page of listings
\* followed by an empty page, pages of listings and then the search blocked,
\* listings between calls that fail, or every call failing in the same way
Page(n) == [kind |-> "items", n |-> n, error_msg |-> ""]

Raised(error_msg) == [kind |-> "error", n |-> 0, error_msg |-> error_msg]

SearchScripts(product_key) ==
    IF product_key \in ActiveKeys
    THEN LET Blocked      == Raised("HTTP Error 406: Not Acceptable")
             RateLimited  == Raised("HTTP Error 403: Forbidden")
             Unauthorized == Raised("HTTP Error 401: Unauthorized")
             TimedOut     == Raised("Connection timed out")
         IN  {<<Page(0)>>, <<Blocked>>} \cup {<<Page(n), Page(0)>> : n \in 1..MaxItems}
             \cup {<<Page(1), Blocked>>,
                    <<Page(1), Page(1), Blocked>>,
                    <<TimedOut, Page(1), TimedOut, TimedOut, Page(0)>>,
                    <<RateLimited, Page(1), Unauthorized, Unauthorized>>,
                    <<TimedOut>>, <<RateLimited>>, <<Unauthorized>>}
    ELSE {<<Page(0)>>}

\* len(items) of the list search_with_pagination returned
RECURSIVE ItemCount(_)
ItemCount(all_items) ==
    IF all_items = << >> THEN 0 ELSE Head(all_items).n + ItemCount(Tail(all_items))

\* lines 954-963: the call of search_with_pagination as frame f leaves it.
\* While it stands at an await the cycle waits with it; when it has returned,
\* the list is counted into the total of the cycle and the loop over the
\* listings starts, the listings drawn one by one as the loop reaches them.
Searching(f) ==
    IF f.at = "done"
    THEN LET items == SearchResult(f.s)
             n     == ItemCount(items.all_items)
         IN  /\ search' = items
             /\ n_items' = n
             /\ total_items' = total_items + n
             /\ IF n = 0
                THEN pc' = "query_done" /\ item_idx' = 0 /\ item' = NoItem
                ELSE pc' = "item" /\ item_idx' = 1 /\ item' \in Listings
             /\ product_passed' = 0
             /\ loc' = NoLoc /\ trace' = << >>
    ELSE /\ search' = f
         /\ pc' = IF f.at = "sleep" THEN "search_pause" ELSE "search_page"
         /\ UNCHANGED <<n_items, total_items, item_idx, item, product_passed, loc, trace>>

\* lines 896-954 and 742: the query's search is called and its first
\* scraper.search comes back
SearchQuery ==
    /\ pc = "search"
    /\ \E responses \in SearchScripts(search_text(query_id)) :
          Searching(search_with_pagination(responses, MAX_PAGES_PER_SEARCH))
    /\ UNCHANGED <<store, conn, cycle_number, queries, idx, sent, failed, rejected, rounds,
                   now, fn_in, fn_out, db_errors>>

\* line 742: a further scraper.search of the call comes back
SearchPage ==
    /\ pc = "search_page"
    /\ Searching(SearchCall(search))
    /\ UNCHANGED <<store, conn, cycle_number, queries, idx, sent, failed, rejected, rounds,
                   now, fn_in, fn_out, db_errors>>

\* lines 757 and 769-796: a sleep of the call ends
SearchPause ==
    /\ pc = "search_pause"
    /\ Searching(SearchWake(search))
    /\ UNCHANGED <<store, conn, cycle_number, queries, idx, sent, failed, rejected, rounds,
                   now, fn_in, fn_out, db_errors>>

\* the history of a run that keeps one follows one rejection at a time, any
\* one: the rejection of the listing in hand is taken up or passed over
Followed(stage) ==
    IF ~rejected.kept THEN {rejected}
    ELSE {rejected,
          [rejected EXCEPT !.log = {[id |-> item.id, query |-> query_id,
                                     stage |-> stage, cycle |-> cycle_number]}]}

\* line 977: the listing's title
TitleOf(l) == IF l.title = "" THEN "No title" ELSE l.title

\* every text scrape_vinted_description can return for a listing of the marketplace
ScrapedDescriptions ==
    UNION { {ScrapeOutcome(resp, attempt).description :
                resp \in ScrapeResponses(l), attempt \in 0..(max_retries - 1)} :
            l \in Listings }

\* What the functions called on a listing return, per listing of the
\* marketplace, product searched and description scraped.  The values are those
\* of the calls of lines 987, 999-1011, 1029 and 1042-1057; they depend on the
\* arguments alone and are computed once.
TitleFilterOf ==
    [l \in Listings |-> [k \in ActiveKeys |-> strict_product_match(TitleOf(l), k)]]

PreviewProfitOf ==
    [l \in Listings |-> [k \in ActiveKeys |->
        PreviewProfit(get_market_data(k, TitleOf(l), ""), l.price)]]

DescriptionCheckOf ==
    [d \in ScrapedDescriptions |-> check_description_quality(d)]

FinalProfitOf ==
    [l \in Listings |-> [k \in ActiveKeys |-> [d \in ScrapedDescriptions |->
        FinalProfit(get_market_data(k, TitleOf(l), d), l.price)]]]

\* lines 966-1015: the listing's id, the dedup check, title and price, the title
\* filter and the profit estimate.  A raise at line 967 reaches the handler of
\* line 1121, whose own read of item.id (line 1122) raises out of the loop.
\* The SELECT of line 970 comes back with its rows, or raises a database
\* error, which the handler of line 1121 catches.
ItemStart ==
    /\ pc = "item"
    /\ \E select_raises \in MayRaise :
       /\ db_errors' = IF item.raises # "id" /\ select_raises
                       THEN db_errors + 1 ELSE db_errors
       /\ IF item.raises = "id"
          THEN /\ trace' = <<"fatal">> /\ pc' = "finally" /\ loc' = loc
               /\ rejected' = rejected
               /\ product_passed' = product_passed
          ELSE IF select_raises
          THEN /\ trace' = <<"error">> /\ pc' = "next_item" /\ loc' = loc
               /\ rejected' = rejected
               /\ product_passed' = product_passed
          ELSE IF IsTracked(conn.tracked_items, item.id)
          THEN /\ trace' = <<"skip">> /\ pc' = "next_item" /\ loc' = loc
               /\ rejected' = rejected
               /\ product_passed' = product_passed
          ELSE IF item.raises = "title"
          THEN /\ trace' = <<"error">> /\ pc' = "next_item" /\ loc' = loc
               /\ rejected' = rejected
               /\ product_passed' = product_passed
          ELSE LET title == TitleOf(item)
                   price == item.price
                   m     == TitleFilterOf[item][search_text(query_id)]
               IN  IF ~m[1]
                   THEN /\ trace' = <<"title_reject">>
                        /\ rejected' \in Followed("title")
                        /\ pc' = "next_item"
                        /\ product_passed' = product_passed
                        /\ loc' = [loc EXCEPT !.title = title, !.price = price,
                                              !.filter_reason = m[2]]
                   ELSE /\ trace' = <<"title_pass">>
                        /\ rejected' = rejected
                        /\ pc' = "scrape"
                        /\ product_passed' = product_passed + 1
                        /\ loc' = [loc EXCEPT
                                     !.title = title, !.price = price, !.filter_reason = m[2],
                                     !.profit = PreviewProfitOf[item][search_text(query_id)]]
    /\ UNCHANGED <<store, conn, cycle_number, queries, idx, n_items, item_idx, item,
                   sent, failed, rounds, now, fn_in, fn_out, total_items, search>>

\* line 1017 and lines 505-611: one request of scrape_vinted_description comes
\* back; the call returns, or goes to the sleep before its next attempt
ScrapeAttempt ==
    /\ pc = "scrape"
    /\ \E resp \in CycleResponses(item) :
          LET o == ScrapeOutcome(resp, loc.attempt) IN
          IF o.done
          THEN /\ loc' = [loc EXCEPT !.description = o.description,
                                     !.scrape_success = o.success]
               /\ trace' = Append(trace, "scrape")
               /\ pc' = "describe"
          ELSE /\ loc' = loc
               /\ trace' = trace
               /\ pc' = "scrape_backoff"
    /\ UNCHANGED <<store, conn, cycle_number, queries, idx, n_items, item_idx, item,
                   sent, failed, rejected, rounds, now, fn_in, fn_out, db_errors,
                   total_items, product_passed, search>>

\* lines 582, 590, 598 and 606: the sleep before the next attempt ends, and
\* line 505 takes the next attempt, or the loop is over (lines 610-611)
ScrapeBackoff ==
    /\ pc = "scrape_backoff"
    /\ IF loc.attempt + 1 < max_retries
       THEN /\ loc' = [loc EXCEPT !.attempt = @ + 1]
            /\ trace' = trace
            /\ pc' = "scrape"
       ELSE /\ loc' = [loc EXCEPT !.attempt = @ + 1,
                                  !.description = "Max retries exceeded",
                                  !.scrape_success = FALSE]
            /\ trace' = Append(trace, "scrape")
            /\ pc' = "describe"
    /\ UNCHANGED <<store, conn, cycle_number, queries, idx, n_items, item_idx, item,
                   sent, failed, rejected, rounds, now, fn_in, fn_out, db_errors,
                   total_items, product_passed, search>>

\* variant of Row: the position in the batch is stored as the query's id
Row_BatchPosition ==
    [id |-> item.id, search_query_id |-> idx, title |-> loc.title,
     description |-> loc.description, price |-> loc.price,
     filter_reason |-> loc.filter_reason]

\* the row of lines 1094-1100 (the columns the model follows)
Row ==
    [id |-> item.id, search_query_id |-> query_id, title |-> loc.title,
     description |-> loc.description, price |-> loc.price,
     filter_reason |-> loc.filter_reason]

\* variant of Describe: the result of the description check is not acted on
Describe_IgnoreCheck ==
    /\ pc = "describe"
    /\ loc' = [loc EXCEPT
                 !.profit = FinalProfitOf[item][search_text(query_id)][loc.description]]
    /\ \E insert_raises \in MayRaise :
       /\ db_errors' = IF item.raises # "currency" /\ insert_raises
                       THEN db_errors + 1 ELSE db_errors
       /\ IF item.raises = "currency" \/ insert_raises
                                       \/ InsertRaises(conn.tracked_items, Row)
          THEN /\ trace' = Append(trace, "error")
               /\ pc' = "next_item"
               /\ conn' = conn
          ELSE /\ trace' = Append(trace, "insert")
               /\ pc' = "notify"
               /\ conn' = [conn EXCEPT
                             !.tracked_items = InsertTracked(@, Row)]
    /\ UNCHANGED <<store, cycle_number, queries, idx, n_items, item_idx, item,
                   sent, failed, rejected, rounds, now, fn_in, fn_out,
                   total_items, product_passed, search>>

\* lines 1027-1101: the description check, the final profit, item_data, the
\* INSERT.  The INSERT adds the row, or raises: for a second row with the id,
\* or with another database error; the handler of line 1121 catches it.
Describe ==
    /\ pc = "describe"
    /\ LET d == DescriptionCheckOf[loc.description] IN
       IF ~d[1]
       THEN /\ trace' = Append(trace, "desc_reject")
            /\ rejected' \in Followed("description")
            /\ pc' = "next_item"
            /\ UNCHANGED <<conn, loc, db_errors>>
       ELSE /\ rejected' = rejected
            /\ loc' = [loc EXCEPT
                          !.profit = FinalProfitOf[item][search_text(query_id)][loc.description]]
            /\ \E insert_raises \in MayRaise :
               /\ db_errors' = IF item.raises # "currency" /\ insert_raises
                               THEN db_errors + 1 ELSE db_errors
               /\ IF item.raises = "currency" \/ insert_raises
                                               \/ InsertRaises(conn.tracked_items, Row)
                  THEN /\ trace' = Append(trace, "error")
                       /\ pc' = "next_item"
                       /\ conn' = conn
                  ELSE /\ trace' = Append(trace, "insert")
                       /\ pc' = "notify"
                       /\ conn' = [conn EXCEPT
                                     !.tracked_items = InsertTracked(@, Row)]
    /\ UNCHANGED <<store, cycle_number, queries, idx, n_items, item_idx, item,
                   sent, failed, rounds, now, fn_in, fn_out,
                   total_items, product_passed, search>>

\* variant of Notify: listings whose scrape failed are stored but not announced
Notify_OnlyScraped ==
    /\ pc = "notify"
    /\ IF loc.scrape_success
       THEN \E discord_success \in BOOLEAN :
               /\ sent' = [sent EXCEPT ![item.id] = @ + 1]
               /\ failed' = IF discord_success THEN failed ELSE failed \cup {item.id}
               /\ trace' = Append(trace,
                                  IF discord_success THEN "notify_ok" ELSE "notify_failed")
       ELSE UNCHANGED <<sent, failed, rejected, rounds, trace>>
    /\ pc' = IF product_passed < n_items THEN "scrape_delay" ELSE "next_item"
    /\ UNCHANGED <<store, conn, cycle_number, queries, idx, n_items, item_idx, item, loc,
                   rejected, rounds, now, fn_in, fn_out, db_errors,
                   total_items, product_passed, search>>

\* lines 1105-1117 and 613-718: the notification call, its result, and
\* whether the delay of line 1119 follows
Notify ==
    /\ pc = "notify"
    /\ \E discord_success \in BOOLEAN :
          /\ sent' = [sent EXCEPT ![item.id] = @ + 1]
          /\ failed' = IF discord_success THEN failed ELSE failed \cup {item.id}
          /\ trace' = Append(trace, IF discord_success THEN "notify_ok" ELSE "notify_failed")
    /\ pc' = IF product_passed < n_items THEN "scrape_delay" ELSE "next_item"
    /\ UNCHANGED <<store, conn, cycle_number, queries, idx, n_items, item_idx, item, loc,
                   rejected, rounds, now, fn_in, fn_out, db_errors,
                   total_items, product_passed, search>>

\* lines 1118-1119: asyncio.sleep(SCRAPE_DELAY)
ScrapeDelay ==
    /\ pc = "scrape_delay"
    /\ pc' = "next_item"
    /\ UNCHANGED <<store, conn, cycle_number, queries, idx, n_items, item_idx, item, loc,
                   trace, sent, failed, rejected, rounds, now, fn_in, fn_out, db_errors,
                   total_items, product_passed, search>>

\* line 965: the loop moves to the next listing, or ends
NextItem ==
    /\ pc = "next_item"
    /\ IF item_idx < n_items
       THEN /\ item_idx' = item_idx + 1
            /\ item' \in Listings
            /\ pc' = "item"
       ELSE /\ item_idx' = 0
            /\ item' = NoItem
            /\ pc' = "query_done"
    /\ loc' = NoLoc /\ trace' = << >>
    /\ UNCHANGED <<store, conn, cycle_number, queries, idx, n_items, sent, failed, rejected, rounds, now,
                   fn_in, fn_out, db_errors,
                   total_items, product_passed, search>>

\* variant of QueryDone: a query whose search returned nothing is not marked as checked
QueryDone_SkipEmpty ==
    /\ pc = "query_done"
    /\ now' = now + 1
    /\ \E update_raises \in MayRaise :
          IF update_raises
          THEN /\ conn' = conn
               /\ db_errors' = db_errors + 1
               /\ trace' = <<"fatal">>
               /\ pc' = "finally"
          ELSE /\ conn' = IF search.all_items = << >> THEN conn
                       ELSE [conn EXCEPT !.search_queries[query_id].last_checked = now + 1]
               /\ db_errors' = db_errors
               /\ trace' = trace
               /\ pc' = IF idx < Len(queries) THEN "product_delay" ELSE "finally"
    /\ n_items' = 0 /\ product_passed' = 0
    /\ UNCHANGED <<store, cycle_number, queries, idx, item_idx, item, loc, sent,
                   failed, rejected, rounds, fn_in, fn_out, total_items, search>>

\* lines 1127-1139: last_checked of the query, then the delay before the next
\* query, or the end of the batch.  The UPDATE of line 1136 writes the row, or
\* raises a database error, which only the handler of line 1143 catches: the
\* row is left as it was and the cycle ends.
QueryDone ==
    /\ pc = "query_done"
    /\ now' = now + 1
    /\ \E update_raises \in MayRaise :
          IF update_raises
          THEN /\ conn' = conn
               /\ db_errors' = db_errors + 1
               /\ trace' = <<"fatal">>
               /\ pc' = "finally"
          ELSE /\ conn' = [conn EXCEPT !.search_queries[query_id].last_checked = now + 1]
               /\ db_errors' = db_errors
               /\ trace' = trace
               /\ pc' = IF idx < Len(queries) THEN "product_delay" ELSE "finally"
    /\ n_items' = 0 /\ product_passed' = 0
    /\ UNCHANGED <<store, cycle_number, queries, idx, item_idx, item, loc, sent,
                   failed, rejected, rounds, fn_in, fn_out, total_items, search>>

\* lines 1140-1141 and 896: asyncio.sleep(PRODUCT_DELAY), then the next query
ProductDelay ==
    /\ pc = "product_delay"
    /\ idx' = idx + 1
    /\ pc' = "search"
    /\ UNCHANGED <<store, conn, cycle_number, queries, n_items, item_idx, item, loc,
                   trace, sent, failed, rejected, rounds, now, fn_in, fn_out, db_errors,
                   total_items, product_passed, search>>

\* line 1150: what the database file holds after a commit that went through
Commit(c) == c

\* lines 1143-1152: the fatal error is logged; commit and close.  The commit
\* writes the connection's view to the file, or raises a database error: then
\* the file stays as it was, the connection is dropped unclosed with what the
\* cycle wrote, and the exception reaches the scheduler.
Finally ==
    /\ pc = "finally"
    /\ \E commit_raises \in MayRaise :
          IF commit_raises
          THEN /\ store' = store
               /\ conn' = store
               /\ db_errors' = db_errors + 1
               /\ pc' = AfterCycle(TRUE)
          ELSE /\ store' = Commit(conn)
               /\ conn' = Commit(conn)
               /\ db_errors' = db_errors
               /\ pc' = AfterCycle(FALSE)
    /\ item' = NoItem /\ loc' = NoLoc /\ trace' = << >> /\ n_items' = 0 /\ item_idx' = 0
    /\ total_items' = 0 /\ product_passed' = 0 /\ search' = NoSearch
    /\ UNCHANGED <<cycle_number, queries, idx, sent, failed, rejected, rounds, now, fn_in, fn_out>>

\* scheduler lines 1187-1189
Sleep ==
    /\ pc = "sleep"
    /\ pc' = "idle"
    /\ UNCHANGED <<store, conn, cycle_number, queries, idx, n_items, item_idx, item, loc,
                   trace, sent, failed, rejected, rounds, now, fn_in, fn_out, db_errors,
                   total_items, product_passed, search>>

Next ==
    \/ StartCycle
    \/ SearchQuery
    \/ SearchPage
    \/ SearchPause
    \/ ItemStart
    \/ ScrapeAttempt
    \/ ScrapeBackoff
    \/ Describe
    \/ Notify
    \/ ScrapeDelay
    \/ NextItem
    \/ QueryDone
    \/ ProductDelay
    \/ Finally
    \/ Sleep

Spec == Init /\ [][Next]_vars

\* the cycles of Spec, with the history of rejections kept
InitReject ==
    /\ store = InitialStore
    /\ conn = InitialStore
    /\ pc = "idle"
    /\ cycle_number = 0
    /\ queries = << >>
    /\ idx = 0
    /\ n_items = 0
    /\ item_idx = 0
    /\ item = NoItem
    /\ loc = NoLoc
    /\ trace = << >>
    /\ sent = [i \in ListingIds |-> 0]
    /\ failed = {}
    /\ rejected = EmptyHistory
    /\ rounds = << >>
    /\ now = 0
    /\ total_items = 0
    /\ product_passed = 0
    /\ search = NoSearch
    /\ db_errors = 0
    /\ fn_in = NoFn
    /\ fn_out = NoFn

SpecReject == InitReject /\ [][Next]_vars

(***************************************************************************)
(* Function specifications: the inputs are drawn in the initial state and  *)
(* the function is applied to them, in one step when it has no await and   *)
(* from await to await when it has.  The cycle stands still.               *)
(***************************************************************************)
MaxTitleWords == 2

MaxDescWords == 2

CycleIdle ==
    /\ store = InitialStore
    /\ conn = InitialStore
    /\ pc = "idle"
    /\ cycle_number = 0
    /\ queries = << >>
    /\ idx = 0
    /\ n_items = 0
    /\ item_idx = 0
    /\ item = NoItem
    /\ loc = NoLoc
    /\ trace = << >>
    /\ sent = [i \in ListingIds |-> 0]
    /\ failed = {}
    /\ rejected = NoHistory
    /\ rounds = << >>
    /\ now = 0
    /\ total_items = 0
    /\ product_passed = 0
    /\ search = NoSearch
    /\ db_errors = 0

\* ' '.join(words)
RECURSIVE Join(_)
Join(words) ==
    IF Len(words) = 0 THEN ""
    ELSE IF Len(words) = 1 THEN words[1]
    ELSE words[1] \o " " \o Join(Tail(words))

\* the texts of at most n pieces of the vocabulary
Texts(vocabulary, n) ==
    {Join(ws) : ws \in UNION {[1..k -> vocabulary] : k \in 0..n}}

TitleWords == {"Broken", "case", "only", "Mavic", "2 Pro", "drone"}

\* titles of whole listings
ScenarioTitles ==
    {"DJI Mini 2 drone, mint condition, box included", "GoPro Hero 11 case only"}

InitTitle ==
    /\ CycleIdle
    /\ \E t \in Texts(TitleWords, MaxTitleWords) \cup ScenarioTitles,
          k \in DOMAIN PRODUCT_KEYS :
          fn_in = [fn |-> "strict_product_match", title |-> t,
                   product_key |-> PRODUCT_KEYS[k]]
    /\ fn_out = NoFn

ApplyMatch ==
    /\ fn_out.fn = "none"
    /\ fn_out' = [fn |-> "strict_product_match",
                  result |-> strict_product_match(fn_in.title, fn_in.product_key)]
    /\ UNCHANGED <<fn_in, cycle_vars>>

NextTitle == ApplyMatch

SpecTitle == InitTitle /\ [][NextTitle]_vars

MaxExtraPieces == 1

\* what a seller adds to the name of the product
ExtraPieces == {"as new condition", "case only", "Mini 12"}

\* a key of the catalog to try a title of another product with, and a product
\* the catalog does not have
OtherKeys == {"dji mini 2", "gopro hero 7"}

Reverse(words) == [i \in 1..Len(words) |-> words[Len(words) + 1 - i]]

\* titles made of a keyword of the catalog, as it is or with its words the
\* other way round, followed by at most MaxExtraPieces extra pieces
KeywordTitles(keyword) ==
    {Join(<<base>> \o extra) :
        base \in {keyword, Join(Reverse(Split(keyword)))},
        extra \in UNION {[1..n -> ExtraPieces] : n \in 0..MaxExtraPieces}}

InitKeyword ==
    /\ CycleIdle
    /\ \E k \in DOMAIN PRODUCT_KEYS :
          \E i \in DOMAIN PRODUCT_SPECS[PRODUCT_KEYS[k]].keywords :
             \E t \in KeywordTitles(PRODUCT_SPECS[PRODUCT_KEYS[k]].keywords[i]),
                product_key \in {PRODUCT_KEYS[k]} \cup OtherKeys :
                fn_in = [fn |-> "strict_product_match", title |-> t,
                         product_key |-> product_key]
    /\ fn_out = NoFn

SpecKeyword == InitKeyword /\ [][NextTitle]_vars

DescWords == {"Works", "broken", "Listing", "page", "UNTESTED"}

\* exclusion lists the description scan is tried with
ExclusionLists ==
    { CRITICAL_EXCLUSIONS_DESCRIPTION,
      <<"listing", "page">>,
      <<"no description", "bot detection", "available">> }

InitDesc ==
    /\ CycleIdle
    /\ \E d \in Texts(DescWords, MaxDescWords)
                \cup {DESCRIPTION_PLACEHOLDERS[i] : i \in DOMAIN DESCRIPTION_PLACEHOLDERS},
          x \in ExclusionLists :
          fn_in = [fn |-> "check_description_quality", description |-> d, exclusions |-> x]
    /\ fn_out = NoFn

ApplyDesc ==
    /\ fn_out.fn = "none"
    /\ fn_out' = [fn |-> "check_description_quality",
                  result |-> DescriptionQuality(fn_in.description, fn_in.exclusions)]
    /\ UNCHANGED <<fn_in, cycle_vars>>

NextDesc == ApplyDesc

SpecDesc == InitDesc /\ [][NextDesc]_vars

MaxPages == 2

MaxScript == 4

\* what one search call can come back with
SearchResponses ==
    { [kind |-> "items", n |-> n, error_msg |-> ""] : n \in {0, 1, ITEMS_PER_PAGE} }
    \cup { [kind |-> "error", n |-> 0, error_msg |-> m] :
             m \in {"HTTP Error 406: Not Acceptable", "HTTP Error 403: Forbidden",
                    "HTTP Error 401: Unauthorized", "Connection timed out"} }

InitSearch ==
    /\ CycleIdle
    /\ \E k \in 1..MaxScript, max_pages \in 0..MaxPages :
          \E responses \in [1..k -> SearchResponses] :
             fn_in = [fn |-> "search_with_pagination", responses |-> responses,
                      max_pages |-> max_pages]
    /\ fn_out = NoFn

\* the call under check as frame f leaves it: standing at an await, or
\* returned with its result
Standing(f) ==
    IF f.at = "done"
    THEN [fn |-> "search_with_pagination", result |-> SearchResult(f.s)]
    ELSE [fn |-> "searching", frame |-> f]

\* the function is called and its first scraper.search comes back
ApplySearch ==
    /\ fn_out.fn = "none"
    /\ fn_out' = Standing(search_with_pagination(fn_in.responses, fn_in.max_pages))
    /\ UNCHANGED <<fn_in, cycle_vars>>

\* a further scraper.search comes back
ApplySearchPage ==
    /\ fn_out.fn = "searching"
    /\ fn_out.frame.at = "call"
    /\ fn_out' = Standing(SearchCall(fn_out.frame))
    /\ UNCHANGED <<fn_in, cycle_vars>>

\* a sleep of the call ends
ApplySearchPause ==
    /\ fn_out.fn = "searching"
    /\ fn_out.frame.at = "sleep"
    /\ fn_out' = Standing(SearchWake(fn_out.frame))
    /\ UNCHANGED <<fn_in, cycle_vars>>

NextSearch ==
    \/ ApplySearch
    \/ ApplySearchPage
    \/ ApplySearchPause

SpecSearch == InitSearch /\ [][NextSearch]_vars

MaxBundleWords == 1

\* pieces of titles and descriptions: markers of the three families and a plain word
BundleWords == {"Creator", "Fly More", "flymore", "Combo", "MK3", "mk 2", "drone"}

InitBundle ==
    /\ CycleIdle
    /\ \E t \in Texts(BundleWords, MaxBundleWords),
          d \in Texts(BundleWords, MaxBundleWords),
          k \in DOMAIN PRODUCT_KEYS :
          fn_in = [fn |-> "get_market_data", model_key |-> PRODUCT_KEYS[k],
                   title |-> t, description |-> d]
    /\ fn_out = NoFn

\* the call of get_market_data; bundle is its local of line 476
ApplyMarket ==
    /\ fn_out.fn = "none"
    /\ fn_out' = [fn |-> "get_market_data",
                  bundle |-> BundleOf(fn_in.model_key, fn_in.title, fn_in.description),
                  result |-> get_market_data(fn_in.model_key, fn_in.title,
                                             fn_in.description)]
    /\ UNCHANGED <<fn_in, cycle_vars>>

NextBundle == ApplyMarket

SpecBundle == InitBundle /\ [][NextBundle]_vars

\* titles, descriptions and prices (in tenths of a pound) of listings
ProfitTitles ==
    {"Traktor Kontrol S4 controller", "Traktor Kontrol S4 MK3 controller",
     "GoPro Hero 11 Black", "DJI Mini 2 Fly More Combo drone",
     "Pioneer DDJ-400 controller"}

ProfitDescriptions == {"", "Great condition, hardly used", "Fly More combo included"}

ProfitPrices == {0, 500, 2500, 6000}

InitProfit ==
    /\ CycleIdle
    /\ \E t \in ProfitTitles, d \in ProfitDescriptions, p \in ProfitPrices,
          k \in DOMAIN PRODUCT_KEYS :
          fn_in = [fn |-> "send_discord_notification", model_key |-> PRODUCT_KEYS[k],
                   title |-> t, description |-> d, price |-> p]
    /\ fn_out = NoFn

\* the profit of lines 1042-1057 and the one of the notification (lines
\* 618-637) for the same listing
ApplyProfit ==
    /\ fn_out.fn = "none"
    /\ LET market_data == get_market_data(fn_in.model_key, fn_in.title, fn_in.description)
       IN  fn_out' = [fn |-> "send_discord_notification",
                      market_data |-> market_data,
                      final |-> FinalProfit(market_data, fn_in.price),
                      shown |-> NotificationProfit(market_data, fn_in.price)]
    /\ UNCHANGED <<fn_in, cycle_vars>>

NextProfit == ApplyProfit

SpecProfit == InitProfit /\ [][NextProfit]_vars

\* descriptions a page can hold between no-break spaces (&nbsp;)
PaddedPages == {"   Nice item ", " Great camera, hardly used "}

\* what the successive page requests of one listing come back with
InitScrape ==
    /\ CycleIdle
    /\ \E l \in Listings :
          \E responses \in [1..max_retries ->
                               ScrapeResponses(l)
                               \cup {[kind |-> "status", status |-> 200, body |-> b] :
                                        b \in PaddedPages}] :
             fn_in = [fn |-> "scrape_vinted_description", responses |-> responses]
    /\ fn_out = NoFn

\* the attempt (line 505) the call under check is in
Attempt == IF fn_out.fn = "none" THEN 0 ELSE fn_out.attempt

\* the function is called, or has slept: the page request of the attempt
\* comes back
ApplyScrape ==
    /\ fn_out.fn = "none" \/ (fn_out.fn = "scraping" /\ fn_out.at = "get")
    /\ LET o == ScrapeOutcome(fn_in.responses[Attempt + 1], Attempt) IN
       fn_out' = IF o.done
                 THEN [fn |-> "scrape_vinted_description",
                       result |-> [description |-> o.description, success |-> o.success,
                                   requests |-> Attempt + 1]]
                 ELSE [fn |-> "scraping", attempt |-> Attempt, at |-> "sleep"]
    /\ UNCHANGED <<fn_in, cycle_vars>>

\* the sleep before the next attempt ends; after the last attempt the loop is
\* over (lines 610-611)
ApplyBackoff ==
    /\ fn_out.fn = "scraping" /\ fn_out.at = "sleep"
    /\ fn_out' = IF Attempt + 1 < max_retries
                 THEN [fn |-> "scraping", attempt |-> Attempt + 1, at |-> "get"]
                 ELSE [fn |-> "scrape_vinted_description",
                       result |-> [description |-> "Max retries exceeded",
                                   success |-> FALSE, requests |-> Attempt + 1]]
    /\ UNCHANGED <<fn_in, cycle_vars>>

NextScrape ==
    \/ ApplyScrape
    \/ ApplyBackoff

SpecScrape == InitScrape /\ [][NextScrape]_vars

(***************************************************************************)
(* Properties.                                                             *)
(***************************************************************************)
TrackedIds(tracked_items) == {r.id : r \in tracked_items}

\* how many events of the current listing's trace are in the set
EventCount(events) == Cardinality({i \in DOMAIN trace : trace[i] \in events})

NotifyEvents == {"notify_ok", "notify_failed"}

\* C1: after any sequence of cycles, whatever the searches return, tracked_items
\* holds at most one row per listing id (in the connection's view and committed).
C1_OneRowPerListing ==
    /\ \A r1, r2 \in conn.tracked_items : r1.id = r2.id => r1 = r2
    /\ \A r1, r2 \in store.tracked_items : r1.id = r2.id => r1 = r2

\* a listing stored in an earlier cycle is returned again and skipped
C1_Witness ==
    /\ cycle_number = 2
    /\ pc = "next_item"
    /\ trace = <<"skip">>
    /\ item.id \in TrackedIds(store.tracked_items)

\* C2: over any sequence of cycles, send_discord_notification is called at most
\* once for any listing id.
C2_NotifiedAtMostOnce == \A i \in ListingIds : sent[i] <= 1

\* C3: the row is inserted before the notification call; a listing whose
\* notification failed keeps its row, which is committed when the cycle ends; the
\* call is not repeated; and a listing committed in an earlier cycle is only ever
\* skipped at the dedup check (never scraped, inserted or announced again).
C3_PersistBeforeNotify ==
    /\ pc = "notify" =>
          /\ \E r \in conn.tracked_items : r.id = item.id
          /\ trace[Len(trace)] = "insert"
    /\ \A i \in failed :
          /\ \E r \in conn.tracked_items : r.id = i
          /\ pc \in {"sleep", "idle"} => \E r \in store.tracked_items : r.id = i
          /\ sent[i] = 1
    /\ (pc \in {"scrape", "scrape_backoff", "describe", "notify", "next_item"}
          /\ \E r \in store.tracked_items : r.id = item.id)
       => pc = "next_item" /\ trace = <<"skip">>

\* C4: if the lower-cased title contains a term of CRITICAL_EXCLUSIONS_TITLE,
\* strict_product_match rejects it, for every catalog product key, and the
\* reason names the first such term in list order.
MatchingTitleTerms(title) ==
    LET title_lower == Lower(title) IN
    {i \in DOMAIN CRITICAL_EXCLUSIONS_TITLE :
        Contains(title_lower, CRITICAL_EXCLUSIONS_TITLE[i])}

C4_FirstExclusionTermRejects ==
    fn_out.fn = "strict_product_match" =>
       LET matching == MatchingTitleTerms(fn_in.title) IN
       matching # {} =>
          LET first == CHOOSE i \in matching : \A j \in matching : i <= j
          IN  fn_out.result =
                 <<FALSE, "Excluded term: '" \o CRITICAL_EXCLUSIONS_TITLE[first] \o "'">>

\* 'case' comes first in the title, 'broken' first in the list
C4_Witness ==
    /\ fn_out.fn = "strict_product_match"
    /\ fn_in.title = "case Broken"
    /\ fn_in.product_key = "dji mini 2"
    /\ fn_out.result = <<FALSE, "Excluded term: 'broken'">>

\* C5: for a product whose must_contain has more than one term, a title lacking
\* one of the terms is rejected by the title filter.
C5_AllRequiredTerms ==
    fn_out.fn = "strict_product_match" =>
       LET must_contain == PRODUCT_SPECS[fn_in.product_key].must_contain IN
       (/\ Len(must_contain) > 1
        /\ \E j \in DOMAIN must_contain :
              ~Contains(Lower(fn_in.title), Lower(must_contain[j])))
       => fn_out.result[1] = FALSE

\* C6: a listing that passed the title filter and whose scraped description
\* contains a description exclusion term is rejected at the description stage:
\* no row is inserted for it and no notification is sent for it.
DescriptionHasExclusionTerm(description) ==
    LET desc_lower == Lower(description) IN
    \E i \in DOMAIN CRITICAL_EXCLUSIONS_DESCRIPTION :
        Contains(desc_lower, CRITICAL_EXCLUSIONS_DESCRIPTION[i])

C6_BadDescriptionRejected ==
    (/\ pc \in {"notify", "next_item"}
     /\ loc.scrape_success
     /\ DescriptionHasExclusionTerm(loc.description))
    => /\ pc = "next_item"
       /\ trace = <<"title_pass", "scrape", "desc_reject">>
       /\ item.id \notin TrackedIds(conn.tracked_items)

C6_Witness ==
    /\ pc = "next_item"
    /\ item.id = 103
    /\ loc.description = "Crashed into a tree, Won't turn on"
    /\ trace = <<"title_pass", "scrape", "desc_reject">>

\* C7: whatever way the page scrape fails, the listing is not rejected for it:
\* the description check passes and the listing is stored and announced.
C7_ScrapeFailureNeverRejects ==
    (/\ pc = "next_item"
     /\ Len(trace) >= 2
     /\ trace[2] = "scrape"
     /\ ~loc.scrape_success
     /\ item.raises = "none")
    => /\ check_description_quality(loc.description)[1]
       /\ EventCount({"insert"}) = 1
       /\ EventCount(NotifyEvents) = 1

\* C8: check_description_quality passes the empty description and every
\* placeholder text, whatever the exclusion list holds.
PlaceholderTexts ==
    {"No description found on page", "Listing no longer available",
     "Could not scrape (bot detection)"}

C8_PlaceholdersPass ==
    (/\ fn_out.fn = "check_description_quality"
     /\ fn_in.description \in PlaceholderTexts \cup {""})
    => fn_out.result[1] = TRUE

\* a placeholder that contains a term of the list it is checked against
C8_Witness ==
    /\ fn_out.fn = "check_description_quality"
    /\ fn_in.description = "Listing no longer available"
    /\ fn_in.exclusions = <<"listing", "page">>
    /\ fn_out.result[1] = TRUE

\* C9 as claimed: the profit of a persisted listing is the Search Query's target
\* price minus the listing price.
C9_ProfitIsTargetMinusPrice ==
    pc = "notify" => loc.profit = target_price(query_id) - loc.price

\* midpoints of the MARKET_DATA 'vinted' ranges, in tenths of a pound
ResaleMidpoint ==
    "gopro hero 12" :> ("standard" :> 3600 @@ "creator" :> 4150) @@
    "gopro hero 11" :> ("standard" :> 2850 @@ "creator" :> 3350) @@
    "gopro hero 10" :> ("standard" :> 2350) @@
    "gopro hero 9" :> ("standard" :> 1700) @@
    "gopro hero 8" :> ("standard" :> 1350) @@
    "dji mavic 2 pro" :> ("standard" :> 7750 @@ "fly more" :> 9500) @@
    "dji air 2s" :> ("standard" :> 6000 @@ "fly more" :> 7500) @@
    "dji mini 3 pro" :> ("standard" :> 4750 @@ "fly more" :> 6250) @@
    "dji mavic air 2" :> ("standard" :> 4250 @@ "fly more" :> 5550) @@
    "dji mini 2" :> ("standard" :> 2750 @@ "fly more" :> 3600) @@
    "pioneer ddj-flx10" :> ("standard" :> 14000) @@
    "pioneer ddj-1000" :> ("standard" :> 9500) @@
    "pioneer ddj-sx3" :> ("standard" :> 6500) @@
    "pioneer ddj-800" :> ("standard" :> 5500) @@
    "pioneer ddj-400" :> ("standard" :> 2400) @@
    "pioneer ddj-sb3" :> ("standard" :> 2150) @@
    "traktor s4" :> ("mk3" :> 6500 @@ "mk2" :> 4250)

\* C9 as amended: the profit of a persisted listing is the midpoint of the
\* 'vinted' range of its product and variant (the description's variant unless
\* that is 'standard', then the title's; the 'standard' range when the variant
\* has none) minus the listing price, and 0 when there is no range.
C9_ProfitIsMidpointMinusPrice ==
    pc = "notify" =>
       LET key      == search_text(query_id)
           in_desc  == parse_bundle_type_from_description(loc.description, key)
           in_title == parse_bundle_type_from_title(loc.title, key)
           variant  == IF in_desc # "standard" THEN in_desc ELSE in_title
           ranges   == ResaleMidpoint[key]
       IN  loc.profit =
              IF variant \in DOMAIN ranges THEN ranges[variant] - loc.price
              ELSE IF "standard" \in DOMAIN ranges THEN ranges["standard"] - loc.price
              ELSE 0

\* the description moves listing 101 from 'standard' to 'creator'
C9_Witness ==
    /\ pc = "notify"
    /\ item.id = 101
    /\ search_text(query_id) = "gopro hero 11"
    /\ loc.scrape_success
    /\ loc.profit = 3350 - 1200

\* C10 as claimed: a listing ends skipped, rejected at the title stage, rejected
\* at the description stage or persisted, in exactly one of these ways.
C10_FourOutcomes ==
    pc = "next_item" =>
       EventCount({"skip", "title_reject", "desc_reject", "insert"}) = 1

\* C10 as amended: a listing ends in exactly one of: skipped as already tracked,
\* rejected at the title stage, rejected at the description stage, persisted, or
\* abandoned on an exception (caught for the listing, or ending the cycle); and a
\* persisted listing has had its notification call by then.
C10_FiveOutcomes ==
    (pc = "next_item" \/ (pc = "finally" /\ trace # << >>)) =>
       /\ EventCount({"skip", "title_reject", "desc_reject", "insert",
                      "error", "fatal"}) = 1
       /\ EventCount({"insert"}) = 1 =>
             /\ EventCount(NotifyEvents) = 1
             /\ trace[Len(trace)] \in NotifyEvents
             /\ trace[Len(trace) - 1] = "insert"

\* a listing whose scrape failed is persisted and its notification call fails
C10_Witness ==
    /\ pc = "next_item"
    /\ ~loc.scrape_success
    /\ trace = <<"title_pass", "scrape", "insert", "notify_failed">>

(***************************************************************************)
(* Properties of the cycle's control flow and of the scheduler.            *)
(***************************************************************************)
\* C11: the listing page is fetched only for a listing that, in this cycle,
\* was not found in tracked_items and passed the title filter; a listing
\* rejected at the title stage, such as "GoPro Hero 11 case only", is never
\* scraped.
C11_ScrapeAfterDedupAndTitle ==
    /\ (pc \in {"scrape", "scrape_backoff", "describe"} \/ EventCount({"scrape"}) > 0) =>
          /\ trace[1] = "title_pass"
          /\ loc.filter_reason = "Passed all filters"
          /\ item.id \notin TrackedIds(store.tracked_items)
    /\ pc \in {"scrape", "scrape_backoff"} => item.id \notin TrackedIds(conn.tracked_items)
    /\ EventCount({"title_reject", "skip"}) > 0 =>
          /\ pc = "next_item"
          /\ Len(trace) = 1
    /\ item.title = "GoPro Hero 11 case only"
          => pc \notin {"scrape", "scrape_backoff", "describe", "notify"}

C11_Witness ==
    /\ pc = "next_item"
    /\ item.title = "GoPro Hero 11 case only"
    /\ loc.filter_reason = "Excluded term: 'case'"
    /\ trace = <<"title_reject">>

\* C12 as claimed: for 'dji mini 2' the title "DJI Mini 2 drone, mint
\* condition, box included" passes the title filter.
C12_BoxIncludedPasses ==
    (/\ fn_out.fn = "strict_product_match"
     /\ fn_in.title = "DJI Mini 2 drone, mint condition, box included"
     /\ fn_in.product_key = "dji mini 2")
    => fn_out.result[1] = TRUE

\* C12 as amended: for 'dji mini 2' that title is rejected by the title
\* filter, with the exclusion term 'box' as the reason.
C12_BoxIncludedRejected ==
    (/\ fn_out.fn = "strict_product_match"
     /\ fn_in.title = "DJI Mini 2 drone, mint condition, box included"
     /\ fn_in.product_key = "dji mini 2")
    => fn_out.result = <<FALSE, "Excluded term: 'box'">>

C12_Witness ==
    /\ fn_out.fn = "strict_product_match"
    /\ fn_in.title = "DJI Mini 2 drone, mint condition, box included"
    /\ fn_in.product_key = "dji mini 2"
    /\ fn_out.result[1] = FALSE

\* C13: an exception raised while a listing is processed never ends the cycle
\* early: the end of the cycle is reached only from the end of the last query,
\* with no listing in hand.
C13_ListingExceptionNeverAborts ==
    pc = "finally" => (trace = << >> /\ idx = Len(queries) /\ item = NoItem)

\* C14: when an exception ends the cycle inside the query loop, the rows
\* inserted and the last_checked values written by then are committed, and
\* the store stays as committed until the next cycle starts.
C14_AbortStillCommits ==
    [][/\ (pc = "finally" /\ trace = <<"fatal">>) =>
             (store' = conn /\ pc' = "sleep")
       /\ pc \in {"sleep", "idle"} => store' = store]_vars

\* C20: every tracked_items row carries the id of a search_queries row, the
\* one of the query under which the listing was accepted.
C20_RowReferencesQuery ==
    /\ \A r \in conn.tracked_items : r.search_query_id \in DOMAIN conn.search_queries
    /\ \A r \in store.tracked_items : r.search_query_id \in DOMAIN store.search_queries
    /\ pc = "notify" =>
          \E r \in conn.tracked_items :
             r.id = item.id /\ r.search_query_id = queries[idx]

\* a listing accepted under the 'dji mini 2' query, the second of its batch
C20_Witness ==
    /\ pc = "notify"
    /\ idx = 2
    /\ search_text(queries[idx]) = "dji mini 2"
    /\ \E r \in conn.tracked_items : r.id = item.id /\ r.search_query_id = 10

(***************************************************************************)
(* Startup, src/main.py lines 1192-1200: init_database, then               *)
(* create_filtered_searches, then the scheduler.  Here search_queries is   *)
(* the table as stored, a row per position (the AUTOINCREMENT id), with    *)
(* its search_text; the process may be restarted between cycles, and the   *)
(* cycles are those of the steps above.                                    *)
(***************************************************************************)
\* the row of the INSERT of lines 836-842 (the columns followed)
NewQuery(product_key) ==
    [search_text |-> product_key, enabled |-> TRUE, last_checked |-> 0]

\* lines 820-843: a row for each PRICING_DATA key not among existing_products
RECURSIVE AddMissing(_, _, _)
AddMissing(search_queries, existing_products, k) ==
    IF k > Len(PRODUCT_KEYS) THEN search_queries
    ELSE AddMissing(IF PRODUCT_KEYS[k] \notin existing_products
                    THEN Append(search_queries, NewQuery(PRODUCT_KEYS[k]))
                    ELSE search_queries,
                    existing_products, k + 1)

\* variant of create_filtered_searches: every product is inserted at each startup
create_filtered_searches_Unconditional(search_queries) ==
    AddMissing(search_queries, {}, 1)

\* lines 801-850
create_filtered_searches(search_queries) ==
    IF Len(search_queries) >= Len(PRODUCT_KEYS)
    THEN search_queries
    ELSE AddMissing(search_queries,
                    {search_queries[i].search_text : i \in DOMAIN search_queries}, 1)

\* the database file before the first startup
EmptyStore == [search_queries |-> << >>, tracked_items |-> {}]

InitStartup ==
    /\ store = EmptyStore
    /\ conn = EmptyStore
    /\ pc = "startup"
    /\ cycle_number = 0
    /\ queries = << >>
    /\ idx = 0
    /\ n_items = 0
    /\ item_idx = 0
    /\ item = NoItem
    /\ loc = NoLoc
    /\ trace = << >>
    /\ sent = [i \in ListingIds |-> 0]
    /\ failed = {}
    /\ rejected = NoHistory
    /\ rounds = << >>
    /\ now = 0
    /\ total_items = 0
    /\ product_passed = 0
    /\ search = NoSearch
    /\ db_errors = 0
    /\ fn_in = NoFn
    /\ fn_out = NoFn

\* lines 1192-1200 and 1175
StartupEvent ==
    /\ pc = "startup"
    /\ store' = [store EXCEPT !.search_queries = create_filtered_searches(@)]
    /\ conn' = store'
    /\ cycle_number' = 0
    /\ pc' = "idle"
    /\ UNCHANGED <<queries, idx, n_items, item_idx, item, loc, trace, sent, failed, rejected, rounds, now,
                   fn_in, fn_out, db_errors,
                   total_items, product_passed, search>>

\* the process is stopped between two cycles and started again
Restart ==
    /\ pc = "idle"
    /\ pc' = "startup"
    /\ UNCHANGED <<store, conn, cycle_number, queries, idx, n_items, item_idx, item, loc,
                   trace, sent, failed, rejected, rounds, now, fn_in, fn_out, db_errors,
                   total_items, product_passed, search>>

NextStartup ==
    \/ StartupEvent
    \/ StartCycle
    \/ SearchQuery
    \/ SearchPage
    \/ SearchPause
    \/ ItemStart
    \/ ScrapeAttempt
    \/ ScrapeBackoff
    \/ Describe
    \/ Notify
    \/ ScrapeDelay
    \/ NextItem
    \/ QueryDone
    \/ ProductDelay
    \/ Finally
    \/ Sleep
    \/ Restart

SpecStartup == InitStartup /\ [][NextStartup]_vars

\* the scheduler of a process that stays up; the event loop runs its coroutine
\* whenever it can go on (a sleep ends, a cycle returns or raises)
NextScheduler ==
    \/ StartupEvent
    \/ StartCycle
    \/ SearchQuery
    \/ SearchPage
    \/ SearchPause
    \/ ItemStart
    \/ ScrapeAttempt
    \/ ScrapeBackoff
    \/ Describe
    \/ Notify
    \/ ScrapeDelay
    \/ NextItem
    \/ QueryDone
    \/ ProductDelay
    \/ Finally
    \/ Sleep

SpecScheduler == InitStartup /\ [][NextScheduler]_vars /\ WF_vars(NextScheduler)

\* rows an operator may have disabled in the database (UPDATE search_queries SET
\* enabled = FALSE): none, two, all but the first nine, or all but three
DisabledRows ==
    {{}, {1, 10}, (DOMAIN PRODUCT_KEYS) \ (1..9), (DOMAIN PRODUCT_KEYS) \ {2, 5, 11}}

\* the scheduler starts on the table of create_filtered_searches with some rows
\* disabled
InitBatch ==
    /\ \E disabled \in DisabledRows :
          store = [EmptyStore EXCEPT !.search_queries =
                      [q \in DOMAIN create_filtered_searches(<< >>) |->
                          [create_filtered_searches(<< >>)[q] EXCEPT
                              !.enabled = q \notin disabled]]]
    /\ conn = store
    /\ pc = "idle"
    /\ cycle_number = 0
    /\ queries = << >>
    /\ idx = 0
    /\ n_items = 0
    /\ item_idx = 0
    /\ item = NoItem
    /\ loc = NoLoc
    /\ trace = << >>
    /\ sent = [i \in ListingIds |-> 0]
    /\ failed = {}
    /\ rejected = NoHistory
    /\ rounds = << >>
    /\ now = 0
    /\ total_items = 0
    /\ product_passed = 0
    /\ search = NoSearch
    /\ db_errors = 0
    /\ fn_in = NoFn
    /\ fn_out = NoFn

NextBatch ==
    \/ StartCycle
    \/ SearchQuery
    \/ SearchPage
    \/ SearchPause
    \/ ItemStart
    \/ ScrapeAttempt
    \/ ScrapeBackoff
    \/ Describe
    \/ Notify
    \/ ScrapeDelay
    \/ NextItem
    \/ QueryDone
    \/ ProductDelay
    \/ Finally
    \/ Sleep

SpecBatch == InitBatch /\ [][NextBatch]_vars

MaxRounds == 3

\* StartCycle over MaxRounds cycles, with the record of the cycle kept in
\* rounds when it ends here: it raised before its try block, or its batch is
\* empty
LoggedStart ==
    /\ pc = "idle"
    /\ cycle_number < MaxRounds
    /\ cycle_number' = cycle_number + 1
    /\ \/ /\ pc' = AfterCycle(TRUE)
          /\ rounds' = Append(rounds, [processed |-> {}, complete |-> FALSE])
          /\ UNCHANGED <<conn, queries, idx>>
       \/ /\ conn' = store
          /\ queries' = SelectQueries(store.search_queries)
          /\ IF queries' = << >>
             THEN /\ pc' = AfterCycle(FALSE) /\ idx' = 0
                  /\ rounds' = Append(rounds, [processed |-> {}, complete |-> TRUE])
             ELSE /\ pc' = "search" /\ idx' = 1
                  /\ rounds' = rounds
    /\ n_items' = 0 /\ item_idx' = 0 /\ item' = NoItem /\ loc' = NoLoc /\ trace' = << >>
    /\ total_items' = 0 /\ product_passed' = 0 /\ search' = NoSearch
    /\ UNCHANGED <<store, sent, failed, rejected, now, fn_in, fn_out, db_errors>>

\* Finally, with the record of the cycle kept in rounds: the queries it got
\* through (all of the batch, or those before the query of the fatal error),
\* and whether it ran to the end of its batch and returned without an
\* exception, the one of a commit that raised included
LoggedFinally ==
    /\ pc = "finally"
    /\ \E commit_raises \in MayRaise :
          /\ IF commit_raises
             THEN /\ store' = store
                  /\ conn' = store
                  /\ db_errors' = db_errors + 1
                  /\ pc' = AfterCycle(TRUE)
             ELSE /\ store' = Commit(conn)
                  /\ conn' = Commit(conn)
                  /\ db_errors' = db_errors
                  /\ pc' = AfterCycle(FALSE)
          /\ rounds' = Append(rounds,
                [processed |-> {queries[i] : i \in 1..(IF trace = <<"fatal">>
                                                         THEN idx - 1 ELSE idx)},
                 complete  |-> trace # <<"fatal">> /\ idx = Len(queries)
                               /\ ~commit_raises])
    /\ item' = NoItem /\ loc' = NoLoc /\ trace' = << >> /\ n_items' = 0 /\ item_idx' = 0
    /\ total_items' = 0 /\ product_passed' = 0 /\ search' = NoSearch
    /\ UNCHANGED <<cycle_number, queries, idx, sent, failed, rejected, now, fn_in, fn_out>>

NextRotation ==
    \/ LoggedStart
    \/ SearchQuery
    \/ SearchPage
    \/ SearchPause
    \/ ItemStart
    \/ ScrapeAttempt
    \/ ScrapeBackoff
    \/ Describe
    \/ Notify
    \/ ScrapeDelay
    \/ NextItem
    \/ QueryDone
    \/ ProductDelay
    \/ LoggedFinally
    \/ Sleep

\* the tables the rotation is followed on: 17, 9 and 3 enabled rows
InitRotation ==
    /\ InitBatch
    /\ {q \in DOMAIN store.search_queries : ~store.search_queries[q].enabled}
          \in {{}, (DOMAIN PRODUCT_KEYS) \ (1..9), (DOMAIN PRODUCT_KEYS) \ {2, 5, 11}}

SpecRotation == InitRotation /\ [][NextRotation]_vars

\* C19: once create_filtered_searches has run, however often startup is
\* repeated and whatever cycles run in between, search_queries holds exactly
\* one row per PRICING_DATA key; and no step removes or replaces a row.
OneRowPerProduct ==
    pc = "idle" =>
       /\ Len(store.search_queries) = Len(PRODUCT_KEYS)
       /\ \A product_key \in DOMAIN PRICING_DATA :
             Cardinality({i \in DOMAIN store.search_queries :
                            store.search_queries[i].search_text = product_key}) = 1

NoRowDeleted ==
    /\ Len(store.search_queries') >= Len(store.search_queries)
    /\ \A i \in DOMAIN store.search_queries :
          store.search_queries'[i].search_text = store.search_queries[i].search_text

C19_OneQueryPerProduct == []OneRowPerProduct /\ [][NoRowDeleted]_vars

\* startup has run again after a cycle updated the table
C19_Witness ==
    /\ pc = "idle"
    /\ cycle_number = 0
    /\ now > 0
    /\ Len(store.search_queries) = Len(PRODUCT_KEYS)
    /\ \E i \in DOMAIN store.search_queries : store.search_queries[i].last_checked > 0

\* C15: whatever happens in a cycle, an exception before its try block
\* included, the scheduler goes on: every cycle is followed by the next one
\* (as far as the model counts cycles).
C15_NextCycleStarts ==
    \A c \in 0..(MaxCycles - 1) : (cycle_number = c) ~> (cycle_number = c + 1)

\* the first cycle raised before its try block (no batch was selected), the
\* scheduler has slept and is about to start the second
C15_Witness ==
    /\ cycle_number = 1
    /\ pc = "idle"
    /\ queries = << >>
    /\ Len(store.search_queries) = Len(PRODUCT_KEYS)

(***************************************************************************)
(* Properties of search_with_pagination.                                   *)
(***************************************************************************)
Searched == fn_out.fn = "search_with_pagination"

\* the calls made, in order: what page each asked for and what came back
Calls == fn_out.result.calls

IsPage(r) == r.kind = "items"

IsBlocked(r) ==
    r.kind = "error"
    /\ (Contains(r.error_msg, "406") \/ Contains(r.error_msg, "Not Acceptable"))

\* C16 as claimed: no page is requested after a page that came back empty or
\* with fewer than ITEMS_PER_PAGE listings.
C16_StopsAtShortPage ==
    Searched =>
       \A i \in DOMAIN Calls :
          (IsPage(Calls[i].response) /\ Calls[i].response.n < ITEMS_PER_PAGE)
          => i = Len(Calls)

\* C16 as amended: no page is requested after a page that came back empty;
\* after a page with at least one listing, full or not, the next page is
\* requested, unless it was page max_pages.
C16_StopsAtEmptyPage ==
    Searched =>
       \A i \in DOMAIN Calls :
          IsPage(Calls[i].response) =>
             IF Calls[i].response.n = 0 \/ Calls[i].page = fn_in.max_pages
             THEN i = Len(Calls)
             ELSE /\ i < Len(Calls)
                  /\ Calls[i + 1].page = Calls[i].page + 1

\* page 1 comes back with one listing and page 2 is requested
C16_Witness ==
    /\ Searched
    /\ Len(Calls) = 2
    /\ Calls[1].page = 1 /\ IsPage(Calls[1].response) /\ Calls[1].response.n = 1
    /\ Calls[2].page = 2 /\ IsPage(Calls[2].response) /\ Calls[2].response.n = 0

\* the calls that came back with listings
SucceededCalls == {j \in DOMAIN Calls : IsPage(Calls[j].response) /\ Calls[j].response.n > 0}

\* C30: the list returned is the concatenation, in increasing page order, of
\* the results of the calls that succeeded: one block per such call, each
\* page at most once even when it was retried, and nothing from a page whose
\* attempts all failed.
C30_PagesConcatenatedOnce ==
    Searched =>
       LET all_items == fn_out.result.all_items IN
       /\ Len(all_items) = Cardinality(SucceededCalls)
       /\ \A k \in DOMAIN all_items :
             /\ all_items[k].call \in SucceededCalls
             /\ all_items[k].n = Calls[all_items[k].call].response.n
       /\ \A k \in 1..(Len(all_items) - 1) :
             Calls[all_items[k].call].page < Calls[all_items[k + 1].call].page
       /\ \A p \in 1..fn_in.max_pages :
             (\A j \in DOMAIN Calls : Calls[j].page = p => ~IsPage(Calls[j].response))
             => \A k \in DOMAIN all_items : Calls[all_items[k].call].page # p

\* page 1 fails once and is fetched on the retry, both attempts of page 2
\* fail: the list holds the listings of page 1 once and nothing else
C30_Witness ==
    /\ Searched
    /\ Len(Calls) = 4
    /\ Calls[1].page = 1 /\ Calls[1].response.kind = "error"
    /\ Calls[2].page = 1 /\ IsPage(Calls[2].response) /\ Calls[2].response.n = 1
    /\ Calls[3].page = 2 /\ Calls[3].response.kind = "error"
    /\ Calls[4].page = 2 /\ Calls[4].response.kind = "error"
    /\ fn_out.result.all_items = <<[call |-> 2, n |-> 1]>>

IsRateLimited(r) ==
    r.kind = "error" /\ ~IsBlocked(r)
    /\ (Contains(r.error_msg, "403") \/ Contains(r.error_msg, "Forbidden"))

IsUnauthorized(r) ==
    r.kind = "error" /\ ~IsBlocked(r) /\ ~IsRateLimited(r)
    /\ (Contains(r.error_msg, "401") \/ Contains(r.error_msg, "Unauthorized"))

IsGeneric(r) ==
    r.kind = "error" /\ ~IsBlocked(r) /\ ~IsRateLimited(r) /\ ~IsUnauthorized(r)

\* the calls made for page p
CallsOf(p) == {j \in DOMAIN Calls : Calls[j].page = p}

\* the blocks of the calls before call i that came back with listings
BlocksBefore(i) ==
    {[call |-> j, n |-> Calls[j].response.n] : j \in {k \in SucceededCalls : k < i}}

\* C31: when the MAX_RETRIES attempts of page p all fail with a generic
\* error, only page p is abandoned and page p + 1 is requested next (when
\* there is one); when they all fail with 401/Unauthorized, no further call
\* is made and the listings collected so far are returned.
C31_GenericSkipsPageUnauthorizedEnds ==
    Searched =>
       \A p \in 1..fn_in.max_pages :
          LET last == CHOOSE j \in CallsOf(p) : \A k \in CallsOf(p) : k <= j IN
          Cardinality(CallsOf(p)) = MAX_RETRIES =>
             /\ (\A j \in CallsOf(p) : IsGeneric(Calls[j].response))
                => IF p < fn_in.max_pages
                   THEN last < Len(Calls) /\ Calls[last + 1].page = p + 1
                   ELSE last = Len(Calls)
             /\ (\A j \in CallsOf(p) : IsUnauthorized(Calls[j].response))
                => /\ last = Len(Calls)
                   /\ {fn_out.result.all_items[k] : k \in DOMAIN fn_out.result.all_items}
                         = BlocksBefore(last)

\* both attempts of page 1 fail with a timeout and page 2 is fetched; its
\* listings are returned
C31_Witness ==
    /\ Searched
    /\ fn_in.max_pages = 2
    /\ Len(Calls) = 3
    /\ Calls[1].page = 1 /\ IsGeneric(Calls[1].response)
    /\ Calls[2].page = 1 /\ IsGeneric(Calls[2].response)
    /\ Calls[3].page = 2 /\ IsPage(Calls[3].response) /\ Calls[3].response.n = 1
    /\ fn_out.result.all_items = <<[call |-> 3, n |-> 1]>>

\* call i is a 403 error and so was an earlier call, with no successful call
\* between the two
SecondRateLimit(i) ==
    /\ IsRateLimited(Calls[i].response)
    /\ \E j \in 1..(i - 1) :
          /\ IsRateLimited(Calls[j].response)
          /\ \A k \in (j + 1)..(i - 1) : ~IsPage(Calls[k].response)

\* which attempt of its page call i is
AttemptNumber(i) == Cardinality({j \in CallsOf(Calls[i].page) : j <= i})

\* C32: a 403/Forbidden error ends the search exactly when it is the second
\* one with no successful call since the previous one, on the same page or
\* not; any other 403 error is followed by the retry of its page, or by the
\* next page when it was the last attempt.
C32_SecondRateLimitEndsSearch ==
    Searched =>
       \A i \in DOMAIN Calls :
          IsRateLimited(Calls[i].response) =>
             IF SecondRateLimit(i)
             THEN i = Len(Calls)
             ELSE IF AttemptNumber(i) < MAX_RETRIES
             THEN i < Len(Calls) /\ Calls[i + 1].page = Calls[i].page
             ELSE IF Calls[i].page < fn_in.max_pages
             THEN i < Len(Calls) /\ Calls[i + 1].page = Calls[i].page + 1
             ELSE i = Len(Calls)

\* a 403 and a timeout on page 1, then a 403 on the first attempt of page 2:
\* the search ends there although page 2 has an attempt left
C32_Witness ==
    /\ Searched
    /\ fn_in.max_pages = 2
    /\ Len(fn_in.responses) = 4
    /\ Len(Calls) = 3
    /\ Calls[1].page = 1 /\ IsRateLimited(Calls[1].response)
    /\ Calls[2].page = 1 /\ IsGeneric(Calls[2].response)
    /\ Calls[3].page = 2 /\ IsRateLimited(Calls[3].response)
    /\ IsPage(fn_in.responses[4])

(***************************************************************************)
(* Properties of the stored rows and of the cycle's bookkeeping.           *)
(***************************************************************************)
\* C21: a tracked_items row, once inserted, is never changed or removed.  Every
\* step keeps the rows the connection and the database file hold, and the one
\* step that changes the table is the INSERT of lines 1094-1100, which adds
\* the current listing's row to it.
C21_TrackedRowsNeverChange ==
    [][/\ conn.tracked_items \subseteq conn'.tracked_items
       /\ store.tracked_items \subseteq store'.tracked_items
       /\ (conn'.tracked_items # conn.tracked_items)
             => (pc = "describe" /\ conn'.tracked_items = conn.tracked_items \cup {Row})]_vars

(***************************************************************************)
(* Properties of the bundle classifier and of the market-data lookup.      *)
(***************************************************************************)
PricedBundle == fn_out.fn = "get_market_data"

\* the markers of the family a product key belongs to, in lower case
FamilyMarkers(product_key) ==
    IF Contains(product_key, "gopro") THEN {"creator"}
    ELSE IF Contains(product_key, "dji") THEN {"fly more", "flymore", "combo"}
    ELSE IF Contains(product_key, "traktor") THEN {"mk3", "mk 3", "mk2", "mk 2"}
    ELSE {}

HasFamilyMarker(text, product_key) ==
    LET text_lower == Lower(text) IN
    \E marker \in FamilyMarkers(product_key) : Contains(text_lower, marker)

\* C22: the bundle get_market_data prices with is the one read from the
\* description when that is not 'standard', and otherwise the one read from
\* the title: when MARKET_DATA has an entry for it, that entry is returned.
\* The bundle is 'standard' only when neither the title nor the description
\* contains a marker of the product's family.
C22_DescriptionBundleFirst ==
    PricedBundle =>
       LET model_key   == fn_in.model_key
           from_desc   == parse_bundle_type_from_description(fn_in.description, model_key)
           from_title  == parse_bundle_type_from_title(fn_in.title, model_key)
           bundle      == IF from_desc # "standard" THEN from_desc ELSE from_title
       IN  /\ fn_out.bundle = bundle
           /\ bundle \in DOMAIN MARKET_DATA[model_key]
                 => fn_out.result = MARKET_DATA[model_key][bundle]
           /\ fn_out.bundle = "standard"
                 => /\ ~HasFamilyMarker(fn_in.title, model_key)
                    /\ ~HasFamilyMarker(fn_in.description, model_key)

\* the title says MK3 and the description mk 2: the mk2 prices are returned
C22_Witness ==
    /\ PricedBundle
    /\ fn_in.model_key = "traktor s4"
    /\ fn_in.title = "MK3"
    /\ fn_in.description = "mk 2"
    /\ fn_out.bundle = "mk2"
    /\ fn_out.result = MARKET_DATA["traktor s4"]["mk2"]

\* C23: for every product of the catalog and every bundle the classifier
\* returns for it, get_market_data returns a configured entry of MARKET_DATA,
\* the bundle's own or else the product's 'standard' one, and never the
\* 'Not available' placeholder.
C23_ConfiguredPriceEntry ==
    (PricedBundle /\ fn_in.model_key \in DOMAIN PRICING_DATA) =>
       /\ fn_out.result # NotAvailable
       /\ fn_in.model_key \in DOMAIN MARKET_DATA
       /\ LET entries == MARKET_DATA[fn_in.model_key] IN
           fn_out.result = IF fn_out.bundle \in DOMAIN entries
                           THEN entries[fn_out.bundle]
                           ELSE entries["standard"]

(***************************************************************************)
(* Properties of the cycle: scoring, searches, delays and bookkeeping.     *)
(***************************************************************************)
\* C24: a listing that has passed the description check has a quality score:
\* 50 when there is no description, between 50 and 100 otherwise (and the
\* higher the more positive phrases the description holds).  The values
\* computed for such a listing are the locals of lines 1041-1090.
C24_QualityScore ==
    pc = "notify" =>
       /\ "quality_score" \in DOMAIN loc
       /\ loc.quality_score \in 50..100
       /\ (~loc.scrape_success \/ loc.description = "") => loc.quality_score = 50

\* the search returned after a first page without listings
ZeroOnPageOne(items) ==
    /\ items.calls # << >>
    /\ items.calls[1].page = 1
    /\ IsPage(items.calls[1].response)
    /\ items.calls[1].response.n = 0

\* the step in which the query's call of search_with_pagination returns
SearchReturns ==
    /\ pc \in {"search", "search_page", "search_pause"}
    /\ pc' \in {"item", "query_done"}

\* C25: when page 1 of a query's search comes back without listings,
\* search_with_pagination returns the empty list after that one call; the
\* query adds nothing to the cycle's total and no listing is processed; the
\* query's last_checked is set all the same, and the cycle goes on to the delay
\* and the next query (or to its normal end after the last query).
C25_EmptySearchMovesOn ==
    [][/\ (SearchReturns /\ ZeroOnPageOne(search'))
            => /\ pc = "search"
               /\ Len(search'.calls) = 1
               /\ search'.all_items = << >>
               /\ total_items' = total_items
               /\ pc' = "query_done"
               /\ item' = NoItem /\ trace' = << >>
               /\ conn' = conn /\ sent' = sent
       /\ (pc = "query_done" /\ ZeroOnPageOne(search))
            => /\ conn'.search_queries[query_id].last_checked = now'
               /\ now' > now
               /\ conn'.tracked_items = conn.tracked_items
               /\ trace' = << >>
               /\ pc' = IF idx < Len(queries) THEN "product_delay" ELSE "finally"
       /\ (pc = "product_delay" /\ ZeroOnPageOne(search))
            => (pc' = "search" /\ idx' = idx + 1)]_vars

\* the step at the UPDATE of line 1136 in which the UPDATE raises
UpdateRaises == pc = "query_done" /\ db_errors' = db_errors + 1

\* C25 as amended: the same, except that the UPDATE of line 1136 may itself
\* raise: then last_checked of the query is left as it was and the cycle ends
\* in the handler of line 1143; otherwise last_checked is set and the cycle
\* goes on to the delay and the next query (or to its normal end).
C25_EmptySearchMovesOnUnlessUpdateRaises ==
    [][/\ (SearchReturns /\ ZeroOnPageOne(search'))
            => /\ pc = "search"
               /\ Len(search'.calls) = 1
               /\ search'.all_items = << >>
               /\ total_items' = total_items
               /\ pc' = "query_done"
               /\ item' = NoItem /\ trace' = << >>
               /\ conn' = conn /\ sent' = sent
       /\ (pc = "query_done" /\ ZeroOnPageOne(search))
            => /\ now' > now
               /\ conn'.tracked_items = conn.tracked_items
               /\ IF UpdateRaises
                  THEN /\ conn' = conn
                       /\ trace' = <<"fatal">>
                       /\ pc' = "finally"
                  ELSE /\ db_errors' = db_errors
                       /\ conn'.search_queries[query_id].last_checked = now'
                       /\ trace' = << >>
                       /\ pc' = IF idx < Len(queries) THEN "product_delay" ELSE "finally"
       /\ (pc = "product_delay" /\ ZeroOnPageOne(search))
            => (pc' = "search" /\ idx' = idx + 1)]_vars

\* an earlier query of the cycle found listings; this one found none on page 1,
\* has been marked as checked and the cycle is on its way to the next query
C25_Witness ==
    /\ pc = "product_delay"
    /\ ZeroOnPageOne(search)
    /\ Len(search.calls) = 1
    /\ total_items > 0
    /\ conn.search_queries[query_id].last_checked = now
    /\ store.search_queries[query_id].last_checked # now

\* the blocks of the calls before call i that came back with listings, in order
RECURSIVE FetchedBefore(_, _)
FetchedBefore(calls, i) ==
    IF i <= 1 THEN << >>
    ELSE LET r == calls[i - 1].response
             before == FetchedBefore(calls, i - 1)
         IN  IF IsPage(r) /\ r.n > 0
             THEN Append(before, [call |-> i - 1, n |-> r.n])
             ELSE before

\* the search returns to the cycle with the list all_items: line 955 counts
\* it, and the loop of line 965 starts on its first listing, or has nothing to
\* run over; nothing is raised and nothing is written
CycleTakes(all_items) ==
    /\ n_items' = ItemCount(all_items)
    /\ total_items' = total_items + ItemCount(all_items)
    /\ IF ItemCount(all_items) > 0
       THEN pc' = "item" /\ item_idx' = 1 /\ item' \in Listings
       ELSE pc' = "query_done"
    /\ trace' = << >>
    /\ UNCHANGED <<store, conn, cycle_number, queries, idx, sent>>

\* the query in hand is past its search, which ended on a blocked call
ReturnedBlocked ==
    /\ pc \in {"item", "scrape", "scrape_backoff", "describe", "notify", "scrape_delay",
               "next_item", "query_done", "product_delay"}
    /\ search.calls # << >>
    /\ IsBlocked(search.calls[Len(search.calls)].response)

\* the step in which the read of the listing's id raises (lines 967 and 1122)
IdRaises == pc = "item" /\ item.raises = "id"

\* one step of the cycle on its way through the listings of the query in
\* hand, one after the other up to the last, and on to the next query
GoesOn ==
    /\ pc \in {"item", "scrape", "scrape_backoff", "describe", "notify", "scrape_delay"}
          => /\ pc' \in {"scrape", "scrape_backoff", "describe", "notify", "scrape_delay",
                         "next_item"}
             /\ UNCHANGED <<idx, item_idx, item, n_items>>
    /\ pc = "next_item"
          => /\ IF item_idx < n_items
                THEN pc' = "item" /\ item_idx' = item_idx + 1
                ELSE pc' = "query_done"
             /\ UNCHANGED <<idx, n_items>>
    /\ pc = "query_done"
          => /\ conn'.search_queries[query_id].last_checked = now'
             /\ trace' # <<"fatal">>
             /\ pc' = IF idx < Len(queries) THEN "product_delay" ELSE "finally"
    /\ pc = "product_delay" => (pc' = "search" /\ idx' = idx + 1)

\* the blocked call is the last call of the search, and the cycle takes the
\* listings of the pages fetched before it
BlockedCallEndsSearch ==
    SearchReturns =>
       \A i \in DOMAIN search'.calls :
          IsBlocked(search'.calls[i].response) =>
             /\ i = Len(search'.calls)
             /\ search'.all_items = FetchedBefore(search'.calls, i)
             /\ CycleTakes(search'.all_items)

\* C17: when a search call raises an error mentioning 406 or 'Not Acceptable',
\* no further call is made, the listings returned are exactly those of the
\* pages fetched before it, in order, and the cycle goes through these
\* listings one after the other and on to the next query.
C17_BlockedSearchGoesOn ==
    [][/\ BlockedCallEndsSearch
       /\ ReturnedBlocked => GoesOn]_vars

\* C17 as amended: the same, unless an exception of the cycle level is raised
\* on the way (the read of a listing's id, lines 967 and 1122, or the UPDATE
\* of line 1136): that step ends the cycle in the handler of line 1143.
C17_BlockedSearchGoesOnUnlessCycleFails ==
    [][/\ BlockedCallEndsSearch
       /\ ReturnedBlocked =>
             IF IdRaises \/ UpdateRaises
             THEN pc' = "finally" /\ trace' = <<"fatal">>
             ELSE GoesOn]_vars

\* page 1 came back with a listing and page 2 was blocked: the listing has
\* been stored under the query, the query marked as checked, and the cycle is
\* at the search of the next query
C17_Witness ==
    /\ pc = "search"
    /\ idx > 1
    /\ Len(search.calls) = 2
    /\ IsPage(search.calls[1].response) /\ search.calls[1].response.n = 1
    /\ search.calls[2].page = 2 /\ IsBlocked(search.calls[2].response)
    /\ search.all_items = <<[call |-> 1, n |-> 1]>>
    /\ \E r \in conn.tracked_items : r.search_query_id = queries[idx - 1]
    /\ conn.search_queries[queries[idx - 1]].last_checked = now

\* the calls made by the search so far, while it stands at an await
CallsSoFar == IF "calls" \in DOMAIN search THEN search.calls ELSE search.s.calls

\* C18: whatever the search calls come back with, the search returns after at
\* most MAX_RETRIES calls per page, on pages 1..max_pages taken in order, so
\* after at most max_pages * MAX_RETRIES calls; what it returns is the
\* listings of the calls that came back with some, in order; and the cycle
\* goes on with them (line 955), nothing raised.
C18_BoundedSearchThenCycle ==
    [][/\ Len(CallsSoFar) <= MAX_PAGES_PER_SEARCH * MAX_RETRIES
       /\ SearchReturns =>
             LET calls == search'.calls IN
             /\ Len(calls) <= MAX_PAGES_PER_SEARCH * MAX_RETRIES
             /\ \A i \in DOMAIN calls : calls[i].page \in 1..MAX_PAGES_PER_SEARCH
             /\ \A p \in 1..MAX_PAGES_PER_SEARCH :
                   Cardinality({i \in DOMAIN calls : calls[i].page = p}) <= MAX_RETRIES
             /\ \A i \in 1..(Len(calls) - 1) : calls[i].page <= calls[i + 1].page
             /\ search'.all_items = FetchedBefore(calls, Len(calls) + 1)
             /\ CycleTakes(search'.all_items)]_vars

\* page 1 failed once and came back with a listing at the second attempt,
\* page 2 failed twice and was given up, page 3 came back empty: the cycle is
\* at the one listing returned
C18_Witness ==
    /\ pc = "item"
    /\ item_idx = 1 /\ n_items = 1
    /\ Len(search.calls) = 5
    /\ {i \in DOMAIN search.calls : search.calls[i].page = 1} = {1, 2}
    /\ {i \in DOMAIN search.calls : search.calls[i].page = 2} = {3, 4}
    /\ \A i \in {1, 3, 4} : search.calls[i].response.kind = "error"
    /\ search.all_items = <<[call |-> 2, n |-> 1]>>

\* the rows a step marks as checked
Processed ==
    {q \in DOMAIN store.search_queries :
        store.search_queries'[q].last_checked # store.search_queries[q].last_checked}

\* C26: the queries a cycle processes are at most MAX_PRODUCTS_PER_CYCLE, all
\* enabled, and the first of the table in the order of last_checked with the
\* never-checked ones (last_checked NULL, here 0) ahead: no enabled query left
\* out was checked earlier than a processed one, or never while a processed one
\* had been; they are processed in that order; and no step changes a disabled
\* query.
C26_OldestEnabledFirst ==
    [][LET sq      == store.search_queries
           waiting == {q \in DOMAIN sq : sq[q].enabled} \ Processed
       IN  /\ DOMAIN store.search_queries' = DOMAIN sq
           /\ Cardinality(Processed) <= MAX_PRODUCTS_PER_CYCLE
           /\ \A q \in Processed : sq[q].enabled
           /\ \A q \in Processed : \A r \in waiting :
                 /\ sq[q].last_checked <= sq[r].last_checked
                 /\ sq[r].last_checked = 0 => sq[q].last_checked = 0
           /\ \A q, r \in Processed :
                 store.search_queries'[q].last_checked < store.search_queries'[r].last_checked
                    => sq[q].last_checked <= sq[r].last_checked
           /\ \A q \in DOMAIN sq : ~sq[q].enabled => store.search_queries'[q] = sq[q]]_vars

\* two full cycles have run on a table whose first row is disabled: every
\* enabled row has been checked and the disabled one never
C26_Witness ==
    /\ cycle_number = 2
    /\ pc = "sleep"
    /\ idx = Len(queries)
    /\ Cardinality({q \in DOMAIN store.search_queries : store.search_queries[q].enabled})
          > MAX_PRODUCTS_PER_CYCLE
    /\ ~store.search_queries[1].enabled
    /\ store.search_queries[1].last_checked = 0
    /\ \A q \in DOMAIN store.search_queries :
          store.search_queries[q].enabled => store.search_queries[q].last_checked > 0

\* C27: within a cycle the program sleeps between every two consecutive
\* listings of a query, whatever became of the first (skipped as already
\* tracked, rejected, failed or stored), and between every two consecutive
\* queries: the loop reaches a listing that has a successor only through the
\* delay of lines 1118-1119, and a further query only through the delay of
\* lines 1140-1141.
C27_DelayBetweenListingsAndQueries ==
    [][/\ (pc' = "next_item" /\ item_idx < n_items) => pc = "scrape_delay"
       /\ (pc' = "search" /\ idx' > 1) => pc = "product_delay"]_vars

\* C28: when the processing of a query ends, its row gets the current time as
\* last_checked and its total-found counter grows by the number of listings
\* the search found; no other row changes.
C28_CheckedAndCounted ==
    [][pc = "query_done" =>
         LET row == conn'.search_queries[query_id] IN
         /\ row.last_checked = now'
         /\ "total_found" \in DOMAIN row
         /\ row.total_found = conn.search_queries[query_id].total_found
                                + ItemCount(search.all_items)
         /\ \A q \in QueryIds \ {query_id} :
               conn'.search_queries[q] = conn.search_queries[q]]_vars

\* C29: send_discord_notification is called for the listing in hand only, and
\* only when that listing was not tracked when the cycle began, its title
\* passes the title filter for the query's product, the description scraped
\* for it passes the description check, and its row, with this title and
\* description and the query's id, is in tracked_items; a listing that was
\* skipped or rejected gets no call.
C29_NotifyOnlyStoredListings ==
    [][\A i \in ListingIds :
          sent'[i] # sent[i] =>
             /\ i = item.id
             /\ sent'[i] = sent[i] + 1
             /\ trace = <<"title_pass", "scrape", "insert">>
             /\ ~IsTracked(store.tracked_items, i)
             /\ TitleFilterOf[item][search_text(query_id)][1]
             /\ DescriptionCheckOf[loc.description][1]
             /\ \E r \in conn.tracked_items :
                   /\ r.id = i
                   /\ r.search_query_id = query_id
                   /\ r.title = TitleOf(item)
                   /\ r.description = loc.description]_vars

\* a listing has gone through the filters, has been stored and announced, and
\* the delay before the next listing has begun
C29_Witness ==
    /\ pc = "scrape_delay"
    /\ trace = <<"title_pass", "scrape", "insert", "notify_ok">>
    /\ sent[item.id] = 1
    /\ loc.scrape_success
    /\ IsTracked(conn.tracked_items, item.id)
    /\ ~IsTracked(store.tracked_items, item.id)

(***************************************************************************)
(* Properties of scrape_vinted_description.                                *)
(***************************************************************************)
Scraped == fn_out.fn = "scrape_vinted_description"

\* a response the loop returns on at once: a 200 or a 404
IsFinalResponse(resp) == resp.kind = "status" /\ resp.status \in {200, 404}

\* C33: scrape_vinted_description returns after at most max_retries page
\* requests; a 200 and a 404 are never followed by another request, any other
\* outcome is followed by one until the last attempt and is then returned as
\* a failure; success is reported only with a description of more than 10
\* characters taken from a 200 page, and "Max retries exceeded" is never
\* returned.
C33_ScrapeBounded ==
    Scraped =>
       LET res  == fn_out.result
           n    == res.requests
           last == fn_in.responses[n]
       IN  /\ n \in 1..max_retries
           /\ \A i \in 1..(n - 1) : ~IsFinalResponse(fn_in.responses[i])
           /\ IsFinalResponse(last) \/ n = max_retries
           /\ ~IsFinalResponse(last) => ~res.success
           /\ res.success =>
                 /\ last.kind = "status" /\ last.status = 200
                 /\ Len(res.description) > 10
           /\ res.description # "Max retries exceeded"

\* a 403, a timeout and a 500: three requests, then the failure is returned
C33_Witness ==
    /\ Scraped
    /\ fn_in.responses[1].status = 403
    /\ fn_in.responses[2].kind = "timeout"
    /\ fn_in.responses[3].status = 500
    /\ fn_out.result = [description |-> "HTTP error 500", success |-> FALSE,
                        requests |-> max_retries]

(***************************************************************************)
(* Properties of the rotation of the queries over the cycles.              *)
(***************************************************************************)
EnabledQueries == {q \in DOMAIN store.search_queries : store.search_queries[q].enabled}

\* ceil(N / MAX_PRODUCTS_PER_CYCLE) for the N enabled queries
RotationLength ==
    (Cardinality(EnabledQueries) + MAX_PRODUCTS_PER_CYCLE - 1) \div MAX_PRODUCTS_PER_CYCLE

\* C34: in any ceil(N / MAX_PRODUCTS_PER_CYCLE) consecutive cycles that all ran
\* to the end of their batch, every one of the N enabled queries is processed
\* at least once, whatever happened in the cycles before.
C34_NoQueryStarved ==
    \A i \in 1..(Len(rounds) - RotationLength + 1) :
       (\A j \in i..(i + RotationLength - 1) : rounds[j].complete)
       => \A q \in EnabledQueries :
             \E j \in i..(i + RotationLength - 1) : q \in rounds[j].processed

\* nine queries enabled: a cycle that stopped at its second query, then two
\* full cycles, which between them get through all nine, the second starting
\* again on queries of the first
C34_Witness ==
    /\ Cardinality(EnabledQueries) = 9
    /\ Len(rounds) = 3
    /\ rounds[1].processed = {1} /\ ~rounds[1].complete
    /\ rounds[2].complete /\ rounds[3].complete
    /\ rounds[2].processed \cap rounds[3].processed # {}
    /\ rounds[2].processed \cup rounds[3].processed = EnabledQueries

(***************************************************************************)
(* Properties of the rejected listings.                                    *)
(***************************************************************************)
\* the step rejects the listing in hand, at the title or at the description stage
RejectStep ==
    \/ pc = "item" /\ trace' = <<"title_reject">>
    \/ pc = "describe" /\ trace' = Append(trace, "desc_reject")

\* C35 as claimed: a listing rejected in an earlier cycle is never skipped by
\* the dedup check when the search of a processed query returns it again.
C35_RejectedNeverSkipped ==
    \A r \in rejected.log :
       ~(/\ pc = "next_item"
         /\ trace = <<"skip">>
         /\ item.id = r.id
         /\ r.cycle < cycle_number)

\* the step at the dedup check of line 970 in which the SELECT raises
SelectRaises == pc = "item" /\ db_errors' = db_errors + 1

\* C35 as amended: a rejection at the title or at the description stage writes
\* nothing to the database and the listing has no row there; when the search of
\* a processed query returns a rejected listing again, then, unless the SELECT
\* of the dedup check raises (the listing ends in the handler of line 1121 and
\* the loop goes on), it is skipped by the dedup check if and only if
\* tracked_items has a row for it by then, and is otherwise evaluated from the
\* title filter on; a listing rejected at the description stage, returned for
\* the same query and without a row, is scraped again.
C35_RejectedEvaluatedAgainUnlessStored ==
    [][/\ RejectStep =>
             /\ conn' = conn /\ store' = store
             /\ item.id \notin TrackedIds(conn'.tracked_items)
       /\ \A r \in rejected.log :
             (pc = "item" /\ item.id = r.id /\ item.raises = "none") =>
                IF SelectRaises
                THEN trace' = <<"error">> /\ pc' = "next_item" /\ conn' = conn
                ELSE IF item.id \in TrackedIds(conn.tracked_items)
                THEN trace' = <<"skip">> /\ pc' = "next_item"
                ELSE /\ trace' \in {<<"title_reject">>, <<"title_pass">>}
                     /\ (r.stage = "description" /\ r.query = query_id)
                           => pc' = "scrape"]_vars

\* a listing rejected by the title filter in cycle 1 has come back for the same
\* query in cycle 2 and has gone through the title filter again
C35_Witness ==
    /\ cycle_number = 2
    /\ pc = "next_item"
    /\ trace = <<"title_reject">>
    /\ \E r \in rejected.log :
          r.id = item.id /\ r.query = query_id /\ r.stage = "title" /\ r.cycle = 1

(***************************************************************************)
(* Properties of a cycle ended by an exception.                            *)
(***************************************************************************)
\* the query in hand when the exception was raised, and those after it
NotCompleted == {queries[j] : j \in idx..Len(queries)}

\* the queries of the batch that were done before
Completed == {queries[j] : j \in 1..(idx - 1)}

\* C36: when an exception ends the cycle while query q is processed, the
\* commit leaves the rows of q and of the queries after q in the batch as they
\* were before the cycle, and the next selection takes all of them, each ahead
\* of every query completed in the cycle.
C36_AbortedQueriesComeFirst ==
    [][(pc = "finally" /\ trace = <<"fatal">>) =>
          LET next == SelectQueries(store'.search_queries) IN
          /\ \A q \in NotCompleted : store'.search_queries[q] = store.search_queries[q]
          /\ \A q \in NotCompleted :
                \E i \in DOMAIN next :
                   /\ next[i] = q
                   /\ \A j \in DOMAIN next : next[j] \in Completed => i < j]_vars

(***************************************************************************)
(* Properties of the profit shown in the notification.                     *)
(***************************************************************************)
\* the listing passes the title filter and the description check, as every
\* persisted listing has
Persisted ==
    /\ strict_product_match(fn_in.title, fn_in.model_key)[1]
    /\ check_description_quality(fn_in.description)[1]

\* C37: for a persisted listing, the profit send_discord_notification shows
\* equals the final profit computed for the same title, description, product
\* and price, also when get_market_data has no price entry for the variant.
C37_SameProfit ==
    (fn_out.fn = "send_discord_notification" /\ Persisted)
       => fn_out.shown = fn_out.final

(***************************************************************************)
(* Properties of the order of the checks of strict_product_match.          *)
(***************************************************************************)
Matched == fn_out.fn = "strict_product_match"

StartsWith(text, prefix) ==
    Len(text) >= Len(prefix) /\ SubSeq(text, 1, Len(prefix)) = prefix

\* which check a reason names, in the order of the checks; 0 for a pass
CheckOf(reason) ==
    IF reason = "Product not in specs" THEN 1
    ELSE IF StartsWith(reason, "Excluded term: '") THEN 2
    ELSE IF StartsWith(reason, "Parts/accessories: '") THEN 3
    ELSE IF reason = "Title too short" THEN 4
    ELSE IF reason = "No keyword match" THEN 5
    ELSE IF StartsWith(reason, "Excluded: '") THEN 6
    ELSE IF reason = "Missing required term" THEN 7
    ELSE IF reason = "Passed all filters" THEN 0
    ELSE 8

\* whether check c fails on the title, each check taken on its own
CheckFails(c, title, product_key) ==
    LET title_lower == Lower(title)
        known == product_key \in DOMAIN PRODUCT_SPECS
        spec  == PRODUCT_SPECS[product_key]
    IN  CASE c = 1 -> ~known
          [] c = 2 -> \E i \in DOMAIN CRITICAL_EXCLUSIONS_TITLE :
                         Contains(title_lower, CRITICAL_EXCLUSIONS_TITLE[i])
          [] c = 3 -> /\ \E i \in DOMAIN parts_indicators :
                            Contains(title_lower, parts_indicators[i])
                      /\ \E j \in DOMAIN parts_excl : Contains(title_lower, parts_excl[j])
          [] c = 4 -> Len(title) < 10
          [] c = 5 -> known /\ \A i \in DOMAIN spec.keywords :
                                  ~KeywordMatches(spec.keywords[i], title_lower)
          [] c = 6 -> known /\ \E i \in DOMAIN spec.exclude :
                                  Contains(title_lower, Lower(spec.exclude[i]))
          [] c = 7 -> known /\ \A i \in DOMAIN spec.must_contain :
                                  ~Contains(title_lower, Lower(spec.must_contain[i]))

\* C38: strict_product_match reports the first check that fails, in the order
\* unknown product, title exclusion term, parts indicator, short title, no
\* keyword match, product exclude term, missing required term, and passes when
\* none fails; for a product of the catalog a title that matches a keyword
\* contains a must_contain term, so "Missing required term" is never returned.
C38_FirstFailingCheck ==
    Matched =>
       LET title  == fn_in.title
           key    == fn_in.product_key
           reason == fn_out.result[2]
           failing == {c \in 1..7 : CheckFails(c, title, key)}
       IN  /\ CheckOf(reason) \in 0..7
           /\ fn_out.result[1] = (CheckOf(reason) = 0)
           /\ IF failing = {} THEN CheckOf(reason) = 0
              ELSE /\ CheckOf(reason) \in failing
                   /\ \A c \in failing : CheckOf(reason) <= c
           /\ (key \in DOMAIN PRODUCT_SPECS /\ ~CheckFails(5, title, key))
                 => ~CheckFails(7, title, key)
           /\ reason # "Missing required term"

\* 'dji mavic 2 pro' and a title with the words of the keyword 'dji 2 pro' the
\* other way round: no keyword occurs as it is, 'mavic' is missing, and the
\* title passes
C38_Witness ==
    /\ Matched
    /\ fn_in.product_key = "dji mavic 2 pro"
    /\ fn_in.title = "pro 2 dji as new condition"
    /\ fn_out.result = <<TRUE, "Passed all filters">>

\* C39: the parts/accessories check is never the reason of a rejection: each of
\* the words it needs beside an indicator is a title exclusion term, so a
\* title that would fail it has already been rejected for an excluded term
\* (or for an unknown product), and no reason "Parts/accessories" is returned.
C39_PartsCheckNeverDecides ==
    Matched =>
       /\ \A j \in DOMAIN parts_excl :
             \E i \in DOMAIN CRITICAL_EXCLUSIONS_TITLE :
                CRITICAL_EXCLUSIONS_TITLE[i] = parts_excl[j]
       /\ CheckFails(3, fn_in.title, fn_in.product_key)
             => /\ fn_out.result[1] = FALSE
                /\ StartsWith(fn_out.result[2], "Excluded term: '")
       /\ ~StartsWith(fn_out.result[2], "Parts/accessories")

\* "case only" has an indicator and an accessory word: it is rejected for the
\* excluded term 'case'
C39_Witness ==
    /\ Matched
    /\ fn_in.title = "case only"
    /\ CheckFails(3, fn_in.title, fn_in.product_key)
    /\ fn_out.result = <<FALSE, "Excluded term: 'case'">>

====
